---- MODULE Spec2Model ----
(***************************************************************************)
(* Model of the digital twin's simulation orchestrator                     *)
(* (src/src/digital_twin.py, DigitalTwin.run_simulation) together with the *)
(* model loader (src/src/forecasting_engine.py) and the store              *)
(* (src/src/db_manager.py) it calls.                                       *)
(*                                                                         *)
(* Time is counted in minutes.  A model name such as "baseline_model" is   *)
(* the sequence of its '_'-separated words, <<"baseline", "model">>, and a *)
(* class name is the sequence of its capitalised words, so that the        *)
(* loader's naming convention is computed, not assumed.                    *)
(*                                                                         *)
(* One DigitalTwin object serves up to MaxRuns run_simulation calls, one   *)
(* after the other; the scraper inserts readings at any moment.            *)
(***************************************************************************)
EXTENDS Integers, Sequences, FiniteSets, TLC

VARIABLES
    clock,                  \* wall clock, minutes (datetime.now truncated)
    readings,               \* table readings of the twin's meter
    forecast_runs,          \* table forecast_runs
    forecast_predictions,   \* table forecast_predictions
    forecasting_model,      \* DigitalTwin.forecasting_model
    latest_real_reading,    \* DigitalTwin.latest_real_reading
    nextInst,               \* number of model instances constructed so far
    run,                    \* number of run_simulation calls started
    pc,                     \* position of the current call
    args,                   \* arguments of the current call
    historical_data,        \* local historical_data
    training_data,          \* locals training_data_start / training_data_end
    window,                 \* locals prediction_start_time / prediction_end_time
    current_run_id,         \* local current_run_id
    register_error,         \* exception swallowed at step 4, if any
    simulated_readings_output,
    actuals_in_simulation_range,
    metrics,
    result,                 \* the dict returned, None while none is returned
    raised,                 \* the exception that left run_simulation, if any
    steps,                  \* the steps the current call has performed, in order
    loads,                  \* names the current call passed to the loader
    used,                   \* <<instance, call>>: call trained/predicted with instance
    db_api,                 \* what the name db_manager is bound to
    db_log,                 \* the write calls made on the store, in order
    history_df,             \* DlModel.predict: local history_df, the buffer
    feature_base_df,        \* DlModel.predict: local feature_base_df
    input_sequence_df,      \* DlModel.predict: local input_sequence_df
    scraper_process,        \* main.py: global scraper_process
    stop_scraper_event,     \* main.py: global stop_scraper_event, is it set
    processes,              \* the Process objects the API server has made
    requests,               \* the API server's threads, each in a request
    first_run_data_fetch,   \* scraper.main: local first_run_data_fetch
    raw_extracted_readings, \* scraper.main: local raw_extracted_readings
    all_raw_data,           \* extract_all_data_from_paginated_table: local
    page_count,             \* extract_all_data_from_paginated_table: local
    previous_page_first_row_content_str,
    DB_POOL,                \* db_manager: the connections the pool has handed out
    conn,                   \* local conn of the db_manager function under way
    connection_lost         \* connections whose link to the server is gone

vars == <<clock, readings, forecast_runs, forecast_predictions, forecasting_model,
          latest_real_reading, nextInst, run, pc, args, historical_data,
          training_data, window, current_run_id, register_error,
          simulated_readings_output, actuals_in_simulation_range, metrics,
          result, raised, steps, loads, used, db_api, db_log,
          history_df, feature_base_df, input_sequence_df,
          scraper_process, stop_scraper_event, processes, requests,
          first_run_data_fetch, raw_extracted_readings, all_raw_data, page_count,
          previous_page_first_row_content_str, DB_POOL, conn, connection_lost>>

\* the API server's globals and threads
server == <<scraper_process, stop_scraper_event, processes, requests>>

\* the locals of the scraper process
scraper == <<first_run_data_fetch, raw_extracted_readings, all_raw_data, page_count,
             previous_page_first_row_content_str>>

\* the connection pool of db_manager
database == <<DB_POOL, conn, connection_lost>>

\* what lies outside the twin and its models
system == <<server, scraper, database>>

\* None is the empty sequence and a value that may be None is wrapped, Some(v),
\* so that every comparison is between sequences
None == <<>>
Some(v) == <<v>>
Val(opt) == opt[1]

----------------------------------------------------------------------------
(* Bounds of the model *)

MaxRuns == 2            \* run_simulation calls on the one DigitalTwin
MaxCalls == 3           \* direct calls of the store's write functions
MaxNow == 61            \* the latest current time a function is applied at
MaxHistory == 3         \* the longest history a function is applied to
MaxClock == 25          \* the clock stops advancing here
SeqRequired == 2        \* get_required_history_count() of the plugin "seq"

(* Program constants *)

Step == 15              \* timedelta(minutes=15)
DefaultRequired == 1    \* BaseForecastingModel.get_required_history_count
REQUIRED_HISTORY_FOR_FEATURES == 336    \* dl_model.py
SEQUENCE_LENGTH == 48                   \* dl_model.py
LongestLag == 336       \* dl_model.py: lag_kwh_336 = kwh.shift(336)
DecimalScale == 1000    \* db_manager.py: DECIMAL(15, 3)
DlGrid == 30            \* asfreq('30T'): the grid DlModel puts its history on

(* Inputs *)

Clock0 == 20                    \* the clock when the twin is constructed
ClockStep == 5
ReadingTs == {0, 15, 30}        \* timestamps the portal reports
Kwh == {None, Some(1), Some(2)} \* energy_kwh_import; NULL when unparsable
Horizons == {-1, 0, 1}          \* prediction_horizon_hours
TrainingHours == {0, 1}         \* data_for_training_hours
RunIds == {1, 2}                \* run ids passed to the store

----------------------------------------------------------------------------
(* Python dicts: a function from the keys present; dict.get *)

EmptyDict == [k \in {} |-> None]      \* {}

Get(d, k) == IF k \in DOMAIN d THEN d[k] ELSE None

----------------------------------------------------------------------------
(* The modules under src/models and the loader's naming convention *)

baseline_model == <<"baseline", "model">>
dl_model == <<"dl", "model">>
naive == <<"naive">>      \* a plugin module naive.py defining NaiveModel
seq == <<"seq">>          \* a plugin module seq.py defining SeqModel
absent == <<"absent">>    \* no such module

ModelNames == {baseline_model, dl_model, naive, seq, absent}

\* the classes each module defines; NoModule when the import fails
NoModule == {<<"ImportError">>}

ModuleClasses(model_name) ==
    CASE model_name = baseline_model -> {<<"Baseline", "Model">>}
      [] model_name = dl_model -> {<<"Dl", "Model">>}
      [] model_name = naive -> {<<"Naive", "Model">>}
      [] model_name = seq -> {<<"Seq", "Model">>}
      [] OTHER -> NoModule

\* str.capitalize on the words that occur
Capitalize(word) ==
    CASE word = "baseline" -> "Baseline"
      [] word = "model" -> "Model"
      [] word = "dl" -> "Dl"
      [] word = "naive" -> "Naive"
      [] word = "seq" -> "Seq"
      [] word = "absent" -> "Absent"
      [] OTHER -> word

\* ''.join(word.capitalize() for word in model_name.split('_')) + 'Model'
ClassNameFor(model_name) ==
    [i \in 1..Len(model_name) |-> Capitalize(model_name[i])] \o <<"Model">>

\* models whose constructor reads pretrained artifacts from disk and re-raises
\* when they are missing (as DlModel._load_artifacts does)
NeedsArtifacts(model_name) == model_name \in {dl_model, seq}

\* get_required_history_count() of the class a module defines
RequiredHistoryCount(model_name) ==
    CASE model_name = dl_model -> REQUIRED_HISTORY_FOR_FEATURES
      [] model_name = seq -> SeqRequired
      [] OTHER -> DefaultRequired

\* load_forecasting_model: "ok" or the exception that leaves it.  An ImportError
\* reaches the handler before class_name is bound, and the handler's log line
\* reads class_name: UnboundLocalError replaces the intended ValueError.
LoadForecastingModel(model_name, artifacts_ok) ==
    IF ModuleClasses(model_name) = NoModule THEN "UnboundLocalError"
    ELSE IF ClassNameFor(model_name) \notin ModuleClasses(model_name) THEN "ValueError"
    ELSE IF NeedsArtifacts(model_name) /\ ~artifacts_ok THEN "OSError"
    ELSE "ok"

\* a freshly constructed model (state as MockBaselineModel.__init__ sets it)
NewModel(model_name, inst) ==
    [name |-> model_name, inst |-> inst,
     trained_data_points |-> 0, simulated_last_kwh |-> Some(0)]

----------------------------------------------------------------------------
(* The store (db_manager) *)

Reading(ts, kwh) == [timestamp |-> ts, energy_kwh_import |-> kwh]

\* variant: ON CONFLICT (meter_id, timestamp) DO UPDATE
InsertMeterReading_Upsert(table, row) ==
    {r \in table : r.timestamp # row.timestamp} \cup {row}

\* INSERT INTO readings ... ON CONFLICT (meter_id, timestamp) DO NOTHING
InsertMeterReading(table, row) ==
    IF \E r \in table : r.timestamp = row.timestamp THEN table ELSE table \cup {row}

\* insert_meter_readings: executemany over the list, in order
RECURSIVE InsertMeterReadingsList(_, _)
InsertMeterReadingsList(table, readings_data) ==
    IF readings_data = <<>> THEN table
    ELSE InsertMeterReadingsList(InsertMeterReading(table, Head(readings_data)),
                                 Tail(readings_data))

RECURSIVE OrderByTimestamp(_)
OrderByTimestamp(rows) ==
    IF rows = {} THEN <<>>
    ELSE LET first == CHOOSE r \in rows : \A q \in rows : r.timestamp <= q.timestamp
         IN  <<first>> \o OrderByTimestamp(rows \ {first})

\* SELECT ... WHERE timestamp >= start AND timestamp <= end ORDER BY timestamp ASC;
\* any exception is logged and [] returned
GetMeterReadingsInRange(table, start_time, end_time, db_ok) ==
    IF db_ok
    THEN OrderByTimestamp({r \in table : r.timestamp >= start_time /\ r.timestamp <= end_time})
    ELSE <<>>

\* How Python binds run_simulation's call of db_manager.insert_forecast_run: the
\* keywords the call passes against the parameters without a default.
InsertForecastRunParams ==
    {"run_id", "meter_id", "model_name", "prediction_start_time", "prediction_end_time"}

\* MockDBManager.insert_forecast_run takes no run_id (it draws a uuid4)
MockInsertForecastRunParams ==
    {"meter_id", "model_name", "prediction_start_time", "prediction_end_time",
     "training_data_start", "training_data_end", "mae", "rmse"}

InsertForecastRunKeywords ==
    {"meter_id", "model_name", "prediction_start_time", "prediction_end_time",
     "training_data_start", "training_data_end", "mae", "rmse"}

\* a row of forecast_runs; run_timestamp defaults to CURRENT_TIMESTAMP
ForecastRun(run_id, model_name, prediction_start_time, mae, rmse, now) ==
    [run_id |-> run_id, model_name |-> model_name,
     prediction_start_time |-> prediction_start_time,
     mae |-> mae, rmse |-> rmse, run_timestamp |-> now]

\* INSERT INTO forecast_runs ... ON CONFLICT (run_id) DO NOTHING; returns run_id
InsertForecastRun(table, row) ==
    IF \E r \in table : r.run_id = row.run_id THEN table ELSE table \cup {row}

\* UPDATE forecast_runs SET mae = .., rmse = .., run_timestamp = CURRENT_TIMESTAMP
\* WHERE run_id = ..
UpdateForecastRunMetrics(table, run_id, mae, rmse, now) ==
    {IF r.run_id = run_id
     THEN [r EXCEPT !.mae = mae, !.rmse = rmse, !.run_timestamp = now]
     ELSE r : r \in table}

\* the rows of a batch that the constraints of forecast_predictions reject:
\* run_id REFERENCES forecast_runs, predicted_kwh NOT NULL
PredictionsRejected(runs, run_id, predictions_data) ==
    /\ predictions_data # <<>>
    /\ \/ ~\E r \in runs : r.run_id = run_id
       \/ \E i \in 1..Len(predictions_data) : predictions_data[i].predicted_kwh = None

\* a number that is not whole is the pair <<numerator, denominator>>, lowest terms
Fraction(num, den) == <<num, den>>

RECURSIVE Gcd(_, _)
Gcd(a, b) == IF b = 0 THEN a ELSE Gcd(b, a % b)

\* the value num/den in the encoding of values: Some(n) when whole
Number(num, den) ==
    IF num % den = 0 THEN Some(num \div den)
    ELSE Fraction(num \div Gcd(num, den), den \div Gcd(num, den))

\* variant: a column DECIMAL(15, 0)
Decimal15_3_WholeOnly(value) ==
    IF Len(value) = 2
    THEN Some((2 * value[1] + value[2]) \div (2 * value[2]))
    ELSE value

\* what a DECIMAL(15, 3) column keeps of a value (non-negative here): NULL and
\* whole numbers as they are, any other number rounded to three decimals
Decimal15_3(value) ==
    IF Len(value) = 2
    THEN Number((2 * DecimalScale * value[1] + value[2]) \div (2 * value[2]),
                DecimalScale)
    ELSE value

\* variant: a plain INSERT, without the ON CONFLICT clause
InsertForecastPrediction_Plain(table, row) ==
    table \cup {row}

\* INSERT INTO forecast_predictions ... ON CONFLICT (run_id, timestamp) DO UPDATE
InsertForecastPrediction(table, row) ==
    {r \in table : ~(r.run_id = row.run_id /\ r.timestamp = row.timestamp)} \cup {row}

RECURSIVE InsertForecastPredictions(_, _, _)
InsertForecastPredictions(table, run_id, predictions_data) ==
    IF predictions_data = <<>> THEN table
    ELSE InsertForecastPredictions(
             InsertForecastPrediction(table,
                 [run_id |-> run_id,
                  timestamp |-> Head(predictions_data).timestamp,
                  predicted_kwh |-> Decimal15_3(Head(predictions_data).predicted_kwh),
                  actual_kwh |-> Decimal15_3(Head(predictions_data).actual_kwh)]),
             run_id, Tail(predictions_data))

\* get_forecast_predictions: SELECT ... WHERE run_id = %s ORDER BY timestamp ASC;
\* a Decimal of the row becomes the float nearest to it, the same number at
\* three decimals; any exception is logged and [] returned
GetForecastPredictions(table, run_id, db_ok) ==
    IF db_ok THEN OrderByTimestamp({r \in table : r.run_id = run_id}) ELSE <<>>

----------------------------------------------------------------------------
(* MockDBManager (digital_twin.py, __main__): the functions the test harness    *)
(* binds in place of db_manager's.                                              *)

MockReadings(now) ==
    {Reading(now - 45, Some(50)), Reading(now - 30, Some(55)),
     Reading(now - 15, Some(60)), Reading(now, Some(58))}

MockGetMeterReadingsInRange(start_time, end_time, now) ==
    OrderByTimestamp({d \in MockReadings(now) :
                         start_time <= d.timestamp /\ d.timestamp <= end_time})

MockGetLatestMeterReading(now) == Reading(now - 15, Some(58))

\* db_manager.get_meter_readings_in_range as the twin's module sees it
ReadingsInRange(api, table, start_time, end_time, now, db_ok) ==
    IF api = "MockDBManager"
    THEN MockGetMeterReadingsInRange(start_time, end_time, now)
    ELSE GetMeterReadingsInRange(table, start_time, end_time, db_ok)

----------------------------------------------------------------------------
(* A model behind the BaseForecastingModel interface of forecasting_engine.py. *)
(* train and predict may raise; when they do not, they behave as the           *)
(* repository's MockBaselineModel.                                             *)

Last(s) == s[Len(s)]

ModelTrain(model, history) ==
    [model EXCEPT !.trained_data_points = Len(history),
                  !.simulated_last_kwh =
                      IF history # <<>> THEN Last(history).energy_kwh_import ELSE @]

\* current_time = start; while current_time < end: ...; current_time += frequency
RECURSIVE PredictGrid(_, _, _)
PredictGrid(start_timestamp, end_timestamp, frequency) ==
    IF start_timestamp < end_timestamp
    THEN <<start_timestamp>> \o
         PredictGrid(start_timestamp + frequency, end_timestamp, frequency)
    ELSE <<>>

\* float(self.simulated_last_kwh) is a TypeError on None
ModelPredictRaises(model, start_timestamp, end_timestamp, frequency) ==
    /\ model.simulated_last_kwh = None
    /\ PredictGrid(start_timestamp, end_timestamp, frequency) # <<>>

ModelPredict(model, start_timestamp, end_timestamp, frequency) ==
    LET grid == PredictGrid(start_timestamp, end_timestamp, frequency)
    IN  [i \in 1..Len(grid) |->
            [timestamp |-> grid[i], predicted_kwh |-> Val(model.simulated_last_kwh)]]

----------------------------------------------------------------------------
(* The shipped models, src/models/baseline_model.py and src/models/dl_model.py, *)
(* called by their own signatures.                                              *)

\* variant: the end of the range is left out
RECURSIVE DateRange_EndExcluded(_, _, _)
DateRange_EndExcluded(start_timestamp, end_timestamp, frequency) ==
    IF start_timestamp < end_timestamp
    THEN <<start_timestamp>> \o
         DateRange_EndExcluded(start_timestamp + frequency, end_timestamp, frequency)
    ELSE <<>>

\* pd.date_range(start=start, end=end, freq=frequency): end included
RECURSIVE DateRange(_, _, _)
DateRange(start_timestamp, end_timestamp, frequency) ==
    IF start_timestamp <= end_timestamp
    THEN <<start_timestamp>> \o
         DateRange(start_timestamp + frequency, end_timestamp, frequency)
    ELSE <<>>

\* BaselineModel(): is_trained False; targets stands for the fitted forest, by
\* the values it was fitted to; regressor_input is the frame the latest call
\* gave the forest (X_train, X_future), empty when it gave none
BaselineNew(inst) ==
    [name |-> baseline_model, inst |-> inst, is_trained |-> FALSE, targets |-> {},
     regressor_input |-> <<>>]

\* what get_weather_data comes to for a call: "failed" (the request fails: an
\* empty frame is returned, or the response cannot be read: an exception),
\* "empty" (an empty series), or "ok" with the timestamps the series covers
WeatherResponse(status, covered) == [status |-> status, covered |-> covered]

WeatherValue == 7

\* the weather column of a row after ffill() then bfill(): the row's own value,
\* else the nearest one before it, else the nearest one after it, else missing
Filled(column, i) ==
    LET before == {j \in 1..i : column[j] # None}
        after == {j \in i..Len(column) : column[j] # None}
    IN  IF before # {} THEN column[CHOOSE j \in before : \A k \in before : k <= j]
        ELSE IF after # {} THEN column[CHOOSE j \in after : \A k \in after : j <= k]
        ELSE None

\* variant: the weather columns are always the joined ones
CreateFeatures_NoFallback(index, has_columns, weather) ==
    [i \in 1..Len(index) |->
        [timestamp |-> index[i],
         temp |-> IF index[i] \in weather.covered THEN Some(WeatherValue) ELSE None]]

\* _create_features, by the weather column 'temp' (the other four are treated
\* alike).  The weather is fetched only for a frame that is not empty, and a
\* frame without columns is empty; an exception or an empty weather frame
\* leaves the columns out, and a column left out is set to 0.0
CreateFeatures(index, has_columns, weather) ==
    LET joined == has_columns /\ index # <<>> /\ weather.status = "ok"
        column == [i \in 1..Len(index) |->
                      IF index[i] \in weather.covered THEN Some(WeatherValue) ELSE None]
    IN  [i \in 1..Len(index) |->
            [timestamp |-> index[i],
             temp |-> IF joined THEN Filled(column, i) ELSE Some(0)]]

\* the index of the frame train builds: the rows with a target, in their order
TrainIndex(history) ==
    LET rows == SelectSeq(history, LAMBDA r : r.energy_kwh_import # None)
    IN  [i \in 1..Len(rows) |-> rows[i].timestamp]

\* the values of the rows left by dropna(subset=[TARGET_COLUMN])
Targets(history) ==
    {Val(history[i].energy_kwh_import) :
        i \in {j \in 1..Len(history) : history[j].energy_kwh_import # None}}

\* variant: an empty history leaves the model as it was
BaselineTrain_KeepsState(model, history, weather, fit_ok) ==
    IF Targets(history) = {} THEN model
    ELSE IF fit_ok
    THEN [model EXCEPT !.is_trained = TRUE, !.targets = Targets(history),
                       !.regressor_input =
                           CreateFeatures(TrainIndex(history), TRUE, weather)]
    ELSE [model EXCEPT !.is_trained = FALSE]

\* variant: a fit that fails leaves is_trained as it was
BaselineTrain_FailedFitKeepsState(model, history, weather, fit_ok) ==
    IF Targets(history) = {}
    THEN [model EXCEPT !.is_trained = FALSE, !.regressor_input = <<>>]
    ELSE IF fit_ok
    THEN [model EXCEPT !.is_trained = TRUE, !.targets = Targets(history),
                       !.regressor_input =
                           CreateFeatures(TrainIndex(history), TRUE, weather)]
    ELSE [model EXCEPT !.regressor_input = <<>>]

\* BaselineModel.train: no data, or none after dropping nulls, or an exception
\* while building features and fitting (caught), leave is_trained False
BaselineTrain(model, history, weather, fit_ok) ==
    IF Targets(history) = {}
    THEN [model EXCEPT !.is_trained = FALSE, !.regressor_input = <<>>]
    ELSE IF fit_ok
    THEN [model EXCEPT !.is_trained = TRUE, !.targets = Targets(history),
                       !.regressor_input =
                           CreateFeatures(TrainIndex(history), TRUE, weather)]
    ELSE [model EXCEPT !.is_trained = FALSE, !.regressor_input = <<>>]

\* X_future of BaselineModel.predict: future_df has an index and no column
FutureFeatures(start_timestamp, end_timestamp, frequency, weather) ==
    CreateFeatures(DateRange(start_timestamp, end_timestamp, frequency), FALSE, weather)

\* the forest's predict refuses an input of no row with ValueError, and predict
\* catches nothing
BaselinePredictRaises(model, start_timestamp, end_timestamp, frequency) ==
    model.is_trained /\ DateRange(start_timestamp, end_timestamp, frequency) = <<>>

\* the values a fitted forest predicts lie among the targets it was fitted to
ForestValues(model) == IF model.is_trained THEN model.targets ELSE {0}

\* BaselineModel.predict: [] when not trained, else one value per date of the
\* range; values is what the forest predicts
BaselinePredict(model, start_timestamp, end_timestamp, frequency, values) ==
    IF ~model.is_trained THEN <<>>
    ELSE LET future_dates == DateRange(start_timestamp, end_timestamp, frequency)
         IN  [i \in 1..Len(future_dates) |->
                 [timestamp |-> future_dates[i], predicted_kwh |-> values[i]]]

\* DlModel(): the artifacts are loaded, nothing else is kept
DlNew(inst) == [name |-> dl_model, inst |-> inst]

\* df.sort_values('timestamp')
SortedByTimestamp(history) ==
    SortSeq(history, LAMBDA a, b : a.timestamp < b.timestamp)

\* rows of _prepare_dataframe's frame: the sorted history put on a 30-minute
\* grid from its first to its last timestamp
DlHistoryRows(history) ==
    IF history = <<>> THEN 0
    ELSE LET df == SortedByTimestamp(history)
         IN  (df[Len(df)].timestamp - df[1].timestamp) \div DlGrid + 1

Min(a, b) == IF a <= b THEN a ELSE b

\* variant: the number of records is not looked at
DlCanPredict_AnyCount(history) ==
    /\ history # <<>>
    /\ Min(DlHistoryRows(history), REQUIRED_HISTORY_FOR_FEATURES) + 1 >= SEQUENCE_LENGTH

\* DlModel.predict goes past its two guards: enough records, and a full input
\* sequence in tail(REQUIRED_HISTORY_FOR_FEATURES) plus the new row
DlCanPredict(history) ==
    /\ Len(history) >= REQUIRED_HISTORY_FOR_FEATURES
    /\ Min(DlHistoryRows(history), REQUIRED_HISTORY_FOR_FEATURES) + 1 >= SEQUENCE_LENGTH

\* DlModel.predict: a date that is skipped adds no row, so every date is
\* skipped or none is
DlPredict(history, start_timestamp, end_timestamp, frequency, values) ==
    IF ~DlCanPredict(history) THEN <<>>
    ELSE LET future_datetimes == DateRange(start_timestamp, end_timestamp, frequency)
         IN  [i \in 1..Len(future_datetimes) |->
                 [timestamp |-> future_datetimes[i], predicted_kwh |-> values[i]]]

\* _prepare_dataframe: the records sorted and put on the 30-minute grid that
\* starts at the first of them; a grid time without a value takes the value
\* interpolate() gives it, here the one before it (the histories used have
\* equal neighbours)
PrepareDataframe(history) ==
    LET df == SortedByTimestamp(history)
    IN  [k \in 1..DlHistoryRows(history) |->
            LET t == df[1].timestamp + DlGrid * (k - 1)
                known == {i \in 1..Len(df) :
                             df[i].timestamp <= t /\ df[i].energy_kwh_import # None}
            IN  [timestamp |-> t,
                 kwh |-> IF known = {} THEN None
                         ELSE df[CHOOSE i \in known : \A j \in known : j <= i]
                                  .energy_kwh_import]]

\* df.tail(n)
TailRows(df, n) ==
    IF Len(df) <= n THEN df ELSE SubSeq(df, Len(df) - n + 1, Len(df))

\* variant: the prediction is not written to the buffer
SetRow_NotWritten(df, dt, kwh) == df

\* history_df.loc[dt] = {'kwh': prediction_kwh}: the row of dt is overwritten
\* where it is, a new one is added at the end
SetRow(df, dt, kwh) ==
    IF \E i \in 1..Len(df) : df[i].timestamp = dt
    THEN [i \in 1..Len(df) |->
             IF df[i].timestamp = dt THEN [timestamp |-> dt, kwh |-> Some(kwh)]
             ELSE df[i]]
    ELSE Append(df, [timestamp |-> dt, kwh |-> Some(kwh)])

\* variant: the buffer is the caller's list, a row written shows in it
HistoricalDataAfter_Aliased(historical_data_, dt, kwh) ==
    Append(historical_data_, Reading(dt, Some(kwh)))

\* the caller's list after history_df.loc[dt] is written: pd.DataFrame(data)
\* copies the records into the frame, and asfreq() gives a new frame again
HistoricalDataAfter(historical_data_, dt, kwh) == historical_data_

\* feature_base_df of the date dt: the last REQUIRED_HISTORY_FOR_FEATURES rows
\* of the buffer and a row for dt, whose kwh bfill()/ffill() take from the row
\* before it
FeatureBase(buffer, dt) ==
    LET base == TailRows(buffer, REQUIRED_HISTORY_FOR_FEATURES)
    IN  Append(base, [timestamp |-> dt,
                      kwh |-> IF base = <<>> THEN None ELSE base[Len(base)].kwh])

\* input_sequence_df: featured_df.tail(SEQUENCE_LENGTH)
InputSequence(base) == TailRows(base, SEQUENCE_LENGTH)

----------------------------------------------------------------------------
(* calculate_forecast_metrics.  mae is the fraction <<sum |e|, n>>; rmse is the *)
(* square root of the fraction <<sum e^2, n>>, kept as that fraction.           *)

NaN == <<"nan">>

Abs(x) == IF x < 0 THEN -x ELSE x

\* the predictions whose timestamp is a key of actual_map, in order
AlignedPredictions(actuals, predictions) ==
    SelectSeq(predictions,
              LAMBDA p : \E i \in 1..Len(actuals) : actuals[i].timestamp = p.timestamp)

\* actual_map[ts]: a dict comprehension keeps the last entry of a key
ActualAt(actuals, ts) ==
    LET idx == {i \in 1..Len(actuals) : actuals[i].timestamp = ts}
        last == CHOOSE i \in idx : \A j \in idx : j <= i
    IN  actuals[last].energy_kwh_import

RECURSIVE SumSeq(_)
SumSeq(s) == IF s = <<>> THEN 0 ELSE Head(s) + SumSeq(Tail(s))

\* float(None) is a TypeError
MetricsRaise(actuals, predictions) ==
    \E i \in 1..Len(AlignedPredictions(actuals, predictions)) :
        LET p == AlignedPredictions(actuals, predictions)[i]
        IN  ActualAt(actuals, p.timestamp) = None

\* variant: no overlap counts as no error
CalculateForecastMetrics_ZeroWhenEmpty(actuals, predictions) ==
    LET aligned == AlignedPredictions(actuals, predictions)
        errors == [i \in 1..Len(aligned) |->
                      Val(ActualAt(actuals, aligned[i].timestamp))
                          - aligned[i].predicted_kwh]
    IN  IF aligned = <<>>
        THEN [mae |-> <<0, 1>>, rmse |-> <<0, 1>>]
        ELSE [mae |-> <<SumSeq([i \in 1..Len(errors) |-> Abs(errors[i])]), Len(errors)>>,
              rmse |-> <<SumSeq([i \in 1..Len(errors) |-> errors[i] * errors[i]]),
                         Len(errors)>>]

\* variant: the means are taken over all the predictions
CalculateForecastMetrics_OverAll(actuals, predictions) ==
    LET aligned == AlignedPredictions(actuals, predictions)
        errors == [i \in 1..Len(aligned) |->
                      Val(ActualAt(actuals, aligned[i].timestamp))
                          - aligned[i].predicted_kwh]
    IN  IF aligned = <<>>
        THEN [mae |-> NaN, rmse |-> NaN]
        ELSE [mae |-> <<SumSeq([i \in 1..Len(errors) |-> Abs(errors[i])]),
                        Len(predictions)>>,
              rmse |-> <<SumSeq([i \in 1..Len(errors) |-> errors[i] * errors[i]]),
                         Len(predictions)>>]

CalculateForecastMetrics(actuals, predictions) ==
    LET aligned == AlignedPredictions(actuals, predictions)
        errors == [i \in 1..Len(aligned) |->
                      Val(ActualAt(actuals, aligned[i].timestamp))
                          - aligned[i].predicted_kwh]
        abs_errors == [i \in 1..Len(errors) |-> Abs(errors[i])]
        squared_errors == [i \in 1..Len(errors) |-> errors[i] * errors[i]]
    IN  IF aligned = <<>>
        THEN [mae |-> NaN, rmse |-> NaN]
        ELSE [mae |-> <<SumSeq(abs_errors), Len(abs_errors)>>,
              rmse |-> <<SumSeq(squared_errors), Len(squared_errors)>>]

----------------------------------------------------------------------------
(* Step 3 of run_simulation: the prediction window *)

\* variant: the last reading as fetched, without sorting
MaxTimestamp_Unsorted(history) ==
    history[Len(history)].timestamp

\* sorted(historical_data, key=timestamp)[-1]['timestamp']
MaxTimestamp(history) ==
    CHOOSE t \in {history[i].timestamp : i \in 1..Len(history)} :
        \A i \in 1..Len(history) : history[i].timestamp <= t

\* variant: the current time is always moved forward to a later quarter hour
PredictionStart_AlwaysLater(history, latest, now) ==
    IF history # <<>> THEN MaxTimestamp(history) + Step
    ELSE IF latest # None THEN latest.timestamp + Step
    ELSE now + (15 - ((now % 60) % 15))

\* lines 140-155; now is the current time with second and microsecond replaced
\* by 0, and now % 60 its minute of the hour
PredictionStart(history, latest, now) ==
    IF history # <<>> THEN MaxTimestamp(history) + Step
    ELSE IF latest # None THEN latest.timestamp + Step
    ELSE LET minutes_to_next_quarter == 15 - ((now % 60) % 15)
         IN  IF minutes_to_next_quarter = 15 THEN now
             ELSE now + minutes_to_next_quarter

\* variant: the end as first computed, without the adjustment of lines 158-163
PredictionEnd_Uncorrected(prediction_start_time, prediction_horizon_hours) ==
    prediction_start_time + 60 * prediction_horizon_hours

PredictionEnd(prediction_start_time, prediction_horizon_hours) ==
    LET prediction_end_time == prediction_start_time + 60 * prediction_horizon_hours
    IN  IF prediction_start_time >= prediction_end_time
        THEN prediction_start_time + Step
        ELSE prediction_end_time

----------------------------------------------------------------------------
(* The state after DigitalTwin(meter_id) is constructed on an empty store *)

EmptyStore ==
    /\ readings = {}
    /\ forecast_runs = {}
    /\ forecast_predictions = {}
    /\ db_log = <<>>

NewTwin ==
    /\ forecasting_model = None
    /\ latest_real_reading = None
    /\ nextInst = 0
    /\ used = {}

NoCall ==
    /\ run = 0
    /\ pc = "idle"
    /\ args = None
    /\ result = EmptyDict
    /\ raised = None
    /\ steps = <<>>
    /\ loads = <<>>

\* the locals of run_simulation before its first statement
\* the API server's threads
Workers == {1, 2}

\* a thread between two requests; status is what it answered last
Idle(status) == [line |-> "idle", status |-> status]

\* run_api_server_command before flask_app.run: no scraper process, the event
\* made and not set
ApiIdle ==
    /\ scraper_process = None
    /\ stop_scraper_event = FALSE
    /\ processes = <<>>
    /\ requests = [t \in Workers |-> Idle(None)]

\* scraper.main and extract_all_data_from_paginated_table at their first line
ScraperIdle ==
    /\ first_run_data_fetch = TRUE
    /\ raw_extracted_readings = <<>>
    /\ all_raw_data = <<>>
    /\ page_count = 0
    /\ previous_page_first_row_content_str = None

\* initialize_db_pool: no connection handed out
PoolIdle ==
    /\ DB_POOL = {}
    /\ conn = None
    /\ connection_lost = {}

NoLocals ==
    /\ ApiIdle
    /\ ScraperIdle
    /\ PoolIdle
    /\ history_df = <<>>
    /\ feature_base_df = <<>>
    /\ input_sequence_df = <<>>
    /\ training_data = None
    /\ window = None
    /\ current_run_id = None
    /\ register_error = None
    /\ metrics = None

Constructed ==
    /\ clock = Clock0
    /\ EmptyStore
    /\ NewTwin
    /\ NoCall
    /\ NoLocals
    /\ historical_data = <<>>
    /\ simulated_readings_output = <<>>
    /\ actuals_in_simulation_range = <<>>

\* the program as shipped: the twin's module calls db_manager.py
Init == Constructed /\ db_api = "db_manager"

\* the binding of the test harness in digital_twin.py
MockInit == Constructed /\ db_api = "MockDBManager"

store == <<readings, forecast_runs, forecast_predictions>>
twin == <<forecasting_model, latest_real_reading, nextInst>>
locals == <<historical_data, training_data, window, current_run_id, register_error,
            simulated_readings_output, actuals_in_simulation_range, metrics>>

Returned == pc \in {"done", "failed"}     \* run_simulation returned result
Raised == pc = "raised"                   \* an exception left run_simulation

----------------------------------------------------------------------------
(* The environment: the clock, and the scraper process inserting readings *)

Tick ==
    /\ clock + ClockStep <= MaxClock
    /\ clock' = clock + ClockStep
    /\ UNCHANGED <<db_api, system, history_df, feature_base_df, input_sequence_df, db_log, store, twin, run, pc, args, locals, result, raised, steps, loads, used>>

InsertMeterReadings ==
    \E ts \in ReadingTs, kwh \in Kwh :
        /\ readings' = InsertMeterReading(readings, Reading(ts, kwh))
        /\ UNCHANGED <<db_api, system, history_df, feature_base_df, input_sequence_df, db_log, clock, forecast_runs, forecast_predictions, twin, run, pc, args,
                       locals, result, raised, steps, loads, used>>

----------------------------------------------------------------------------
(* run_simulation, one action per step *)

\* the call itself: a new frame of locals
BeginRun ==
    \E m \in ModelNames, h \in Horizons, t \in TrainingHours :
        /\ pc \in {"idle", "done", "failed", "raised"}
        /\ run < MaxRuns
        /\ run' = run + 1
        /\ pc' = "select"
        /\ args' = [model_name |-> m, prediction_horizon_hours |-> h,
                    data_for_training_hours |-> t]
        /\ historical_data' = <<>>
        /\ training_data' = None
        /\ window' = None
        /\ current_run_id' = None
        /\ register_error' = None
        /\ simulated_readings_output' = <<>>
        /\ actuals_in_simulation_range' = <<>>
        /\ metrics' = None
        /\ result' = EmptyDict
        /\ raised' = None
        /\ steps' = <<>>
        /\ loads' = <<>>
        /\ UNCHANGED <<db_api, system, history_df, feature_base_df, input_sequence_df, db_log, clock, store, twin, used>>

\* variant: reload only when the twin holds no model at all
LoadNeeded_IgnoresName(model, model_name) ==
    model = None

\* if not self.forecasting_model or self.forecasting_model.get_model_name() != model_name
LoadNeeded(model, model_name) ==
    model = None \/ model.name # model_name

\* lines 112-117: load_model re-raises what the loader raises; the model the twin
\* already holds under the requested name is kept.  (A model just loaded is
\* truthy, so the "return {}" of line 117 is never taken.)
SelectModel ==
    /\ pc = "select"
    /\ steps' = Append(steps, "select")
    /\ IF LoadNeeded(forecasting_model, args.model_name)
       THEN \E artifacts_ok \in BOOLEAN :
                LET outcome == LoadForecastingModel(args.model_name, artifacts_ok)
                IN  /\ loads' = Append(loads, args.model_name)
                    /\ IF outcome = "ok"
                       THEN /\ forecasting_model' = NewModel(args.model_name, nextInst + 1)
                            /\ nextInst' = nextInst + 1
                            /\ pc' = "fetch"
                            /\ raised' = raised
                       ELSE /\ raised' = Some(outcome)
                            /\ pc' = "raised"
                            /\ UNCHANGED <<forecasting_model, nextInst>>
       ELSE /\ pc' = "fetch"
            /\ UNCHANGED <<forecasting_model, nextInst, loads, raised>>
    /\ UNCHANGED <<db_api, system, history_df, feature_base_df, input_sequence_df, db_log, clock, store, latest_real_reading, run, args, locals, result, used>>

\* get_latest_real_reading: db_manager defines no get_latest_meter_reading, the
\* AttributeError is caught (line 64) and self.latest_real_reading is left as it is
GetLatestRealReading(api, latest, now) ==
    IF api = "MockDBManager" THEN MockGetLatestMeterReading(now) ELSE latest

\* variant: an empty history ends the call with an error
FetchHistory_HardStop ==
    /\ pc = "fetch"
    /\ steps' = Append(steps, "fetch")
    /\ \E db_ok \in BOOLEAN :
          historical_data' =
              ReadingsInRange(db_api, readings,
                  clock - 60 * args.data_for_training_hours, clock, clock, db_ok)
    /\ IF historical_data' = <<>>
       THEN raised' = Some("InsufficientDataError") /\ pc' = "raised"
       ELSE raised' = raised /\ pc' = "train"
    /\ UNCHANGED <<db_api, system, history_df, feature_base_df, input_sequence_df, db_log, clock, store, twin, run, args, training_data,
                   window, current_run_id, register_error, simulated_readings_output,
                   actuals_in_simulation_range, metrics, result, loads, used>>

\* lines 121-125 with get_historical_data (lines 77-86)
FetchHistory ==
    /\ pc = "fetch"
    /\ steps' = Append(steps, "fetch")
    /\ \E db_ok \in BOOLEAN :
          historical_data' =
              ReadingsInRange(db_api, readings,
                  clock - 60 * args.data_for_training_hours, clock, clock, db_ok)
    /\ latest_real_reading' =
           IF historical_data' = <<>> THEN GetLatestRealReading(db_api, latest_real_reading, clock)
           ELSE latest_real_reading
    /\ pc' = "train"
    /\ UNCHANGED <<db_api, system, history_df, feature_base_df, input_sequence_df, db_log, clock, store, forecasting_model, nextInst, run, args, training_data,
                   window, current_run_id, register_error, simulated_readings_output,
                   actuals_in_simulation_range, metrics, result, raised, loads, used>>

\* what run_simulation returns when train raises (line 135)
TrainFailureResult == EmptyDict

\* lines 128-135
Train ==
    /\ pc = "train"
    /\ steps' = Append(steps, "train")
    /\ used' = used \cup {<<forecasting_model.inst, run>>}
    /\ \E train_raises \in BOOLEAN :
          IF train_raises
          THEN /\ result' = TrainFailureResult
               /\ pc' = "failed"
               /\ UNCHANGED <<forecasting_model, training_data>>
          ELSE /\ forecasting_model' = ModelTrain(forecasting_model, historical_data)
               /\ training_data' =
                      IF historical_data # <<>>
                      THEN [start |-> Some(historical_data[1].timestamp),
                            end |-> Some(Last(historical_data).timestamp)]
                      ELSE [start |-> None, end |-> None]
               /\ pc' = "window"
               /\ result' = result
    /\ UNCHANGED <<db_api, system, history_df, feature_base_df, input_sequence_df, db_log, clock, store, latest_real_reading, nextInst, run, args, historical_data,
                   window, current_run_id, register_error, simulated_readings_output,
                   actuals_in_simulation_range, metrics, raised, loads>>

\* lines 137-163
ResolveWindow ==
    /\ pc = "window"
    /\ steps' = Append(steps, "window")
    /\ LET prediction_start_time ==
               PredictionStart(historical_data, latest_real_reading, clock)
       IN  window' = [prediction_start_time |-> prediction_start_time,
                      prediction_end_time |->
                          PredictionEnd(prediction_start_time,
                                        args.prediction_horizon_hours)]
    /\ pc' = "register"
    /\ UNCHANGED <<db_api, system, history_df, feature_base_df, input_sequence_df, db_log, clock, store, twin, run, args, historical_data, training_data,
                   current_run_id, register_error, simulated_readings_output,
                   actuals_in_simulation_range, metrics, result, raised, loads, used>>

\* The call of line 168 passes no run_id, which db_manager.insert_forecast_run
\* requires: Python raises TypeError before the function body runs.  The mock's
\* parameters are the keywords of the call.
InsertForecastRunCall(api) ==
    LET required == IF api = "MockDBManager" THEN MockInsertForecastRunParams
                    ELSE InsertForecastRunParams
    IN  IF required \subseteq InsertForecastRunKeywords THEN "ok" ELSE "TypeError"

\* an entry of db_log
DbCall(op, call_args) == [op |-> op, args |-> call_args]

\* variant: the registration error leaves run_simulation
Register_Propagates ==
    /\ pc = "register"
    /\ steps' = Append(steps, "register")
    /\ register_error' = Some(InsertForecastRunCall(db_api))
    /\ raised' = Some(InsertForecastRunCall(db_api))
    /\ pc' = "raised"
    /\ UNCHANGED <<db_api, system, history_df, feature_base_df, input_sequence_df, db_log, clock, store, twin, run, args, historical_data,
                   training_data, window, current_run_id, simulated_readings_output,
                   actuals_in_simulation_range, metrics, result, loads, used>>

\* lines 165-182: the exception is logged and the run goes on without a run id.
\* Under the mock the call succeeds and returns a fresh uuid4, here the number
\* of the call.
Register ==
    /\ pc = "register"
    /\ steps' = Append(steps, "register")
    /\ IF InsertForecastRunCall(db_api) = "ok"
       THEN /\ current_run_id' = Some(run)
            /\ register_error' = None
            /\ db_log' = Append(db_log, DbCall("insert_forecast_run", <<run>>))
       ELSE /\ current_run_id' = None
            /\ register_error' = Some(InsertForecastRunCall(db_api))
            /\ db_log' = db_log
    /\ pc' = "predict"
    /\ UNCHANGED <<db_api, system, history_df, feature_base_df, input_sequence_df, clock, store, twin, run, args, historical_data, training_data,
                   window, simulated_readings_output, actuals_in_simulation_range,
                   metrics, result, raised, loads, used>>

\* lines 184-190: nothing catches what predict raises
Predict ==
    /\ pc = "predict"
    /\ steps' = Append(steps, "predict")
    /\ used' = used \cup {<<forecasting_model.inst, run>>}
    /\ \E predict_raises \in BOOLEAN :
          IF predict_raises
             \/ ModelPredictRaises(forecasting_model, window.prediction_start_time,
                                   window.prediction_end_time, Step)
          THEN /\ raised' = Some("PredictError")
               /\ pc' = "raised"
               /\ UNCHANGED simulated_readings_output
          ELSE /\ simulated_readings_output' =
                      ModelPredict(forecasting_model, window.prediction_start_time,
                                   window.prediction_end_time, Step)
               /\ pc' = "evaluate"
               /\ raised' = raised
    /\ UNCHANGED <<db_api, system, history_df, feature_base_df, input_sequence_df, db_log, clock, store, twin, run, args, historical_data, training_data, window,
                   current_run_id, register_error, actuals_in_simulation_range, metrics,
                   result, loads>>

\* lines 192-199: the actuals of the window, then the metrics
Evaluate ==
    /\ pc = "evaluate"
    /\ steps' = Append(steps, "evaluate")
    /\ \E db_ok \in BOOLEAN :
          actuals_in_simulation_range' =
              ReadingsInRange(db_api, readings, window.prediction_start_time,
                              window.prediction_end_time, clock, db_ok)
    /\ IF MetricsRaise(actuals_in_simulation_range', simulated_readings_output)
       THEN /\ raised' = Some("TypeError")
            /\ pc' = "raised"
            /\ UNCHANGED metrics
       ELSE /\ metrics' = CalculateForecastMetrics(actuals_in_simulation_range',
                                                   simulated_readings_output)
            /\ pc' = "persist"
            /\ raised' = raised
    /\ UNCHANGED <<db_api, system, history_df, feature_base_df, input_sequence_df, db_log, clock, store, twin, run, args, historical_data, training_data, window,
                   current_run_id, register_error, simulated_readings_output, result,
                   loads, used>>

\* lines 203-211
PredictionsToStore(predictions, actuals) ==
    [i \in 1..Len(predictions) |->
        [timestamp |-> predictions[i].timestamp,
         predicted_kwh |-> Some(predictions[i].predicted_kwh),
         actual_kwh |->
             IF \E j \in 1..Len(actuals) : actuals[j].timestamp = predictions[i].timestamp
             THEN ActualAt(actuals, predictions[i].timestamp)
             ELSE None]]

\* variant: the writes are made without looking at current_run_id
Persist_Unguarded ==
    /\ pc = "persist"
    /\ steps' = Append(steps, "persist")
    /\ LET written_run_id == IF current_run_id # None THEN Val(current_run_id) ELSE run IN
       IF TRUE
       THEN \E failure \in {"none", "insert", "update"} :
                /\ db_api = "MockDBManager" => failure = "none"
                /\ forecast_predictions' =
                       IF failure = "insert" \/ db_api = "MockDBManager"
                       THEN forecast_predictions
                       ELSE InsertForecastPredictions(forecast_predictions,
                                written_run_id,
                                PredictionsToStore(simulated_readings_output,
                                                   actuals_in_simulation_range))
                /\ forecast_runs' =
                       IF failure = "none" /\ db_api # "MockDBManager"
                       THEN UpdateForecastRunMetrics(forecast_runs, written_run_id,
                                                     metrics.mae, metrics.rmse, clock)
                       ELSE forecast_runs
                /\ db_log' =
                       LET insert == DbCall("insert_forecast_predictions",
                                            <<written_run_id,
                                              Len(simulated_readings_output)>>)
                           update == DbCall("update_forecast_run_metrics",
                                            <<written_run_id, metrics.mae,
                                              metrics.rmse>>)
                       IN  IF failure = "insert" THEN Append(db_log, insert)
                           ELSE db_log \o <<insert, update>>
       ELSE UNCHANGED <<forecast_runs, forecast_predictions, db_log>>
    /\ pc' = "return"
    /\ UNCHANGED <<db_api, system, history_df, feature_base_df, input_sequence_df, clock, readings, twin, run, args, locals, result, raised, loads,
                   used>>

\* lines 201-218: only with a run id; a failure of either write is logged.
\* update_forecast_run_metrics is called whatever the metrics are.  The mock's
\* functions only log.
Persist ==
    /\ pc = "persist"
    /\ steps' = Append(steps, "persist")
    /\ IF current_run_id # None
       THEN \E failure \in {"none", "insert", "update"} :
                /\ db_api = "MockDBManager" => failure = "none"
                /\ forecast_predictions' =
                       IF failure = "insert" \/ db_api = "MockDBManager"
                       THEN forecast_predictions
                       ELSE InsertForecastPredictions(forecast_predictions,
                                Val(current_run_id),
                                PredictionsToStore(simulated_readings_output,
                                                   actuals_in_simulation_range))
                /\ forecast_runs' =
                       IF failure = "none" /\ db_api # "MockDBManager"
                       THEN UpdateForecastRunMetrics(forecast_runs, Val(current_run_id),
                                                     metrics.mae, metrics.rmse, clock)
                       ELSE forecast_runs
                /\ db_log' =
                       LET insert == DbCall("insert_forecast_predictions",
                                            <<Val(current_run_id),
                                              Len(simulated_readings_output)>>)
                           update == DbCall("update_forecast_run_metrics",
                                            <<Val(current_run_id), metrics.mae,
                                              metrics.rmse>>)
                       IN  IF failure = "insert" THEN Append(db_log, insert)
                           ELSE db_log \o <<insert, update>>
       ELSE UNCHANGED <<forecast_runs, forecast_predictions, db_log>>
    /\ pc' = "return"
    /\ UNCHANGED <<db_api, system, history_df, feature_base_df, input_sequence_df, clock, readings, twin, run, args, locals, result, raised, loads,
                   used>>

\* lines 221-230
SimulationResult ==
    [meter_id |-> "meter",
     model_used |-> args.model_name,
     simulation_start |-> window.prediction_start_time,
     simulation_end |-> window.prediction_end_time,
     simulated_readings |-> simulated_readings_output,
     actual_readings_in_sim_range |-> actuals_in_simulation_range,
     metrics |-> metrics,
     run_id |-> current_run_id]

Return ==
    /\ pc = "return"
    /\ steps' = Append(steps, "done")
    /\ result' = SimulationResult
    /\ pc' = "done"
    /\ UNCHANGED <<db_api, system, history_df, feature_base_df, input_sequence_df, db_log, clock, store, twin, run, args, locals, raised, loads, used>>

----------------------------------------------------------------------------

Next ==
    \/ Tick
    \/ InsertMeterReadings
    \/ BeginRun
    \/ SelectModel
    \/ FetchHistory
    \/ Train
    \/ ResolveWindow
    \/ Register
    \/ Predict
    \/ Evaluate
    \/ Persist
    \/ Return

Spec == Init /\ [][Next]_vars

\* the same program with db_manager's functions bound to MockDBManager's
MockSpec == MockInit /\ [][Next]_vars

----------------------------------------------------------------------------
(* Step 3 of run_simulation applied to any history, in any order, any latest *)
(* reading and any current time.                                              *)

\* the lists of readings with distinct timestamps, in any order
Histories ==
    {h \in UNION {[1..n -> {Reading(ts, Some(1)) : ts \in ReadingTs}] : n \in 0..MaxHistory} :
        \A i \in 1..Len(h) : \A j \in 1..Len(h) : h[i].timestamp = h[j].timestamp => i = j}

WindowInit ==
    /\ db_api = "db_manager"
    /\ EmptyStore
    /\ NoLocals
    /\ clock \in 0..MaxNow
    /\ historical_data \in Histories
    /\ latest_real_reading \in {None, Reading(45, Some(1))}
    /\ \E h \in Horizons :
          args = [model_name |-> naive, prediction_horizon_hours |-> h,
                  data_for_training_hours |-> 1]
    /\ forecasting_model = NewModel(naive, 1)
    /\ nextInst = 1
    /\ used = {<<1, 1>>}
    /\ run = 1
    /\ pc = "window"
    /\ steps = <<"select", "fetch", "train">>
    /\ loads = <<naive>>
    /\ result = EmptyDict
    /\ raised = None
    /\ simulated_readings_output = <<>>
    /\ actuals_in_simulation_range = <<>>

WindowSpec == WindowInit /\ [][ResolveWindow]_vars

----------------------------------------------------------------------------
(* main.py, run_simulation_command: the run-simulation command of the CLI.   *)
(* steps logs what the command does; window holds the parsed explicit window. *)

\* the values of --prediction-start and --prediction-end: absent, not ISO
\* text, or the ISO text of a time
NotIso == <<"not iso">>
Iso(t) == <<"iso", t>>
CliTimes == {None, NotIso, Iso(0), Iso(15), Iso(30)}

\* datetime.fromisoformat: the time, or ValueError
FromIsoFormatRaises(text) == text[1] # "iso"
FromIsoFormat(text) == text[2]

\* the parameters of run_simulation and the keywords the command passes
RunSimulationParams ==
    {"simulation_duration_hours", "prediction_horizon_hours", "model_name",
     "data_for_training_hours"}

RunSimulationCommandKeywords ==
    {"simulation_duration_hours", "prediction_horizon_hours", "model_name",
     "data_for_training_hours", "explicit_prediction_start_time",
     "explicit_prediction_end_time"}

RunSimulationCall ==
    IF RunSimulationCommandKeywords \subseteq RunSimulationParams THEN "ok"
    ELSE "TypeError"

CliInit ==
    /\ db_api = "db_manager"
    /\ clock = Clock0
    /\ EmptyStore
    /\ NewTwin
    /\ NoLocals
    /\ \E m \in ModelNames, h \in Horizons, ps \in CliTimes, pe \in CliTimes :
          args = [model |-> m, duration_hours |-> h, training_hours |-> 1,
                  prediction_start |-> ps, prediction_end |-> pe]
    /\ run = 0
    /\ pc = "cli_start"
    /\ steps = <<>>
    /\ loads = <<>>
    /\ result = EmptyDict
    /\ raised = None
    /\ historical_data = <<>>
    /\ simulated_readings_output = <<>>
    /\ actuals_in_simulation_range = <<>>

CliUnchanged ==
    UNCHANGED <<db_api, system, history_df, feature_base_df, input_sequence_df, db_log, clock, store, twin, run, args, historical_data,
                training_data, current_run_id, register_error,
                simulated_readings_output, actuals_in_simulation_range, metrics,
                result, raised, loads, used>>

\* lines 140-151
CliParseStart ==
    /\ pc = "cli_start"
    /\ IF args.prediction_start = None
       THEN /\ window' = [prediction_start_time |-> None, prediction_end_time |-> None]
            /\ steps' = steps
            /\ pc' = "cli_end"
       ELSE IF FromIsoFormatRaises(args.prediction_start)
       THEN /\ window' = window
            /\ steps' = Append(steps, "error: invalid prediction-start format")
            /\ pc' = "cli_returned"
       ELSE /\ window' = [prediction_start_time |->
                              Some(FromIsoFormat(args.prediction_start)),
                          prediction_end_time |-> None]
            /\ steps' = steps
            /\ pc' = "cli_end"
    /\ CliUnchanged

\* lines 153-162
CliParseEnd ==
    /\ pc = "cli_end"
    /\ IF args.prediction_end = None
       THEN /\ window' = window
            /\ steps' = steps
            /\ pc' = "cli_check"
       ELSE IF FromIsoFormatRaises(args.prediction_end)
       THEN /\ window' = window
            /\ steps' = Append(steps, "error: invalid prediction-end format")
            /\ pc' = "cli_returned"
       ELSE /\ window' = [window EXCEPT !.prediction_end_time =
                                            Some(FromIsoFormat(args.prediction_end))]
            /\ steps' = steps
            /\ pc' = "cli_check"
    /\ CliUnchanged

\* lines 164-166: the error is logged and the command returns
CliCheckWindow ==
    /\ pc = "cli_check"
    /\ IF /\ window.prediction_start_time # None
          /\ window.prediction_end_time # None
          /\ Val(window.prediction_start_time) >= Val(window.prediction_end_time)
       THEN /\ steps' = Append(steps, "error: start must be before end")
            /\ pc' = "cli_returned"
       ELSE /\ steps' = steps
            /\ pc' = "cli_call"
    /\ window' = window
    /\ CliUnchanged

\* lines 168-180: the call passes two keywords run_simulation does not have;
\* the TypeError is caught by the command's except Exception and logged
CliRunSimulation ==
    /\ pc = "cli_call"
    /\ IF RunSimulationCall = "ok"
       THEN /\ steps' = Append(steps, "run_simulation")
            /\ pc' = "select"
       ELSE /\ steps' = Append(steps, "critical: TypeError")
            /\ pc' = "cli_returned"
    /\ window' = window
    /\ CliUnchanged

CliNext ==
    \/ CliParseStart
    \/ CliParseEnd
    \/ CliCheckWindow
    \/ CliRunSimulation

CliSpec == CliInit /\ [][CliNext]_vars

----------------------------------------------------------------------------
(* train and predict of a BaselineModel or a DlModel object called directly, *)
(* in any order, with any history and any window.                            *)

\* n readings, one every spacing minutes, the last at -spacing
HistoryEvery(n, spacing) ==
    [i \in 1..n |-> Reading(spacing * (i - n - 1), Some(1))]

BaselineHistories ==
    {<<>>, <<Reading(0, None)>>, <<Reading(0, Some(1))>>,
     <<Reading(0, Some(1)), Reading(15, None), Reading(30, Some(2))>>}

DlHistories ==
    {<<>>, HistoryEvery(1, 15), HistoryEvery(REQUIRED_HISTORY_FOR_FEATURES - 1, 15),
     HistoryEvery(REQUIRED_HISTORY_FOR_FEATURES, 15),
     HistoryEvery(REQUIRED_HISTORY_FOR_FEATURES, 1)}

WindowStarts == {0, 15}
WindowEnds == {0, 15, 30, 45}
Frequencies == {15, 30}

ModelsInit ==
    /\ db_api = "db_manager"
    /\ clock = Clock0
    /\ EmptyStore
    /\ NoCall
    /\ NoLocals
    /\ latest_real_reading = None
    /\ forecasting_model \in {BaselineNew(1), DlNew(1)}
    /\ nextInst = 1
    /\ used = {}
    /\ historical_data = <<>>
    /\ simulated_readings_output = <<>>
    /\ actuals_in_simulation_range = <<>>

ModelsUnchanged ==
    UNCHANGED <<db_api, system, history_df, feature_base_df, input_sequence_df, db_log, clock, store, latest_real_reading, nextInst, run,
                training_data, current_run_id, register_error,
                actuals_in_simulation_range, metrics, result, loads, used>>

WeatherResponses ==
    {WeatherResponse("failed", {}), WeatherResponse("empty", {}),
     WeatherResponse("ok", {}), WeatherResponse("ok", {30}),
     WeatherResponse("ok", {0, 15, 30, 45})}

PredictArgs(start_timestamp, end_timestamp, frequency) ==
    [prediction_start_time |-> start_timestamp, prediction_end_time |-> end_timestamp,
     frequency |-> frequency]

\* args keeps what the weather provider answers during the call, and whether
\* the forest's fit goes through
BaselineTrainCall ==
    \E history \in BaselineHistories, weather \in WeatherResponses, fit_ok \in BOOLEAN :
        /\ forecasting_model.name = baseline_model
        /\ forecasting_model' = BaselineTrain(forecasting_model, history, weather, fit_ok)
        /\ historical_data' = history
        /\ args' = [weather |-> weather, fit_ok |-> fit_ok]
        /\ raised' = None
        /\ steps' = <<"train">>
        /\ pc' = "trained"
        /\ UNCHANGED <<window, simulated_readings_output>>
        /\ ModelsUnchanged

BaselinePredictCall ==
    \E s \in WindowStarts, e \in WindowEnds, f \in Frequencies,
       weather \in {WeatherResponse("failed", {}), WeatherResponse("ok", {0, 15, 30, 45})} :
        /\ forecasting_model.name = baseline_model
        /\ IF BaselinePredictRaises(forecasting_model, s, e, f)
           THEN /\ raised' = Some("ValueError")
                /\ UNCHANGED <<forecasting_model, simulated_readings_output>>
           ELSE /\ raised' = None
                /\ \E values \in [1..Len(DateRange(s, e, f)) ->
                                     ForestValues(forecasting_model)] :
                      simulated_readings_output' =
                          BaselinePredict(forecasting_model, s, e, f, values)
                /\ forecasting_model' =
                       [forecasting_model EXCEPT !.regressor_input =
                           IF forecasting_model.is_trained
                           THEN FutureFeatures(s, e, f, weather)
                           ELSE <<>>]
        /\ args' = [weather |-> weather]
        /\ window' = PredictArgs(s, e, f)
        /\ steps' = <<"predict">>
        /\ pc' = "predicted"
        /\ UNCHANGED historical_data
        /\ ModelsUnchanged

\* DlModel.train is a no-op
DlTrainCall ==
    \E history \in DlHistories :
        /\ forecasting_model.name = dl_model
        /\ historical_data' = history
        /\ steps' = <<"train">>
        /\ pc' = "trained"
        /\ UNCHANGED <<forecasting_model, window, simulated_readings_output, args, raised>>
        /\ ModelsUnchanged

DlPredictCall ==
    \E history \in DlHistories, s \in WindowStarts, e \in WindowEnds, f \in Frequencies :
        /\ forecasting_model.name = dl_model
        /\ \E values \in [1..Len(DateRange(s, e, f)) -> {0, 1}] :
              simulated_readings_output' = DlPredict(history, s, e, f, values)
        /\ historical_data' = history
        /\ window' = PredictArgs(s, e, f)
        /\ steps' = <<"predict">>
        /\ pc' = "predicted"
        /\ UNCHANGED <<forecasting_model, args, raised>>
        /\ ModelsUnchanged

ModelsNext ==
    \/ BaselineTrainCall
    \/ BaselinePredictCall
    \/ DlTrainCall
    \/ DlPredictCall

ModelsSpec == ModelsInit /\ [][ModelsNext]_vars

----------------------------------------------------------------------------
(* One call of DlModel.predict, an action per iteration of its loop.  steps *)
(* keeps the dates the loop has gone through.                               *)

\* the fitted networks: what each gives for an input, back on the kWh scale
Networks == {"low", "high", "swing"}

NetworkOutput(network, sequence) ==
    CASE network = "low" -> -1
      [] network = "high" -> 2
      [] OTHER -> IF sequence[Len(sequence)].kwh = Some(2) THEN -1 ELSE 2

\* variant: the output of the network is not clipped
Max_SecondArgument(a, b) == b

\* max(0, prediction_kwh)
Max(a, b) == IF a >= b THEN a ELSE b

\* the windows of the calls: short ones, and one with more dates than
\* feature_base_df has rows
LoopWindows ==
    {PredictArgs(s, e, f) : s \in WindowStarts, e \in WindowEnds, f \in Frequencies}
        \cup {PredictArgs(0, DlGrid * (REQUIRED_HISTORY_FOR_FEATURES + 1), DlGrid)}

DlLoopInit ==
    /\ db_api = "db_manager"
    /\ clock = Clock0
    /\ EmptyStore
    /\ NoCall
    /\ NoLocals
    /\ latest_real_reading = None
    /\ forecasting_model = DlNew(1)
    /\ nextInst = 1
    /\ used = {}
    /\ historical_data = <<>>
    /\ simulated_readings_output = <<>>
    /\ actuals_in_simulation_range = <<>>

DlLoopUnchanged ==
    UNCHANGED <<db_api, system, db_log, clock, store, twin, run, training_data,
                current_run_id, register_error, actuals_in_simulation_range,
                metrics, result, raised, loads, used>>

\* lines 119-131: the guard on the number of records, the buffer, the dates;
\* args keeps the network the model holds during the call
DlPredictEnter ==
    \E history \in DlHistories, w \in LoopWindows, network \in Networks :
        /\ pc = "idle"
        /\ historical_data' = history
        /\ window' = w
        /\ args' = [network |-> network]
        /\ simulated_readings_output' = <<>>
        /\ IF Len(history) < REQUIRED_HISTORY_FOR_FEATURES
           THEN /\ pc' = "predicted"
                /\ UNCHANGED history_df
           ELSE /\ pc' = "predict_loop"
                /\ history_df' = PrepareDataframe(history)
        /\ UNCHANGED <<steps, feature_base_df, input_sequence_df>>
        /\ DlLoopUnchanged

\* lines 133-168, for the next date of future_datetimes, the date that
\* DateRange has at the place Len(steps) + 1
DlPredictIterate ==
    LET dt == window.prediction_start_time + window.frequency * Len(steps)
    IN  /\ pc = "predict_loop"
        /\ dt <= window.prediction_end_time
        /\ steps' = Append(steps, dt)
        /\ feature_base_df' = FeatureBase(history_df, dt)
        /\ input_sequence_df' = InputSequence(feature_base_df')
        /\ IF Len(input_sequence_df') < SEQUENCE_LENGTH
           THEN UNCHANGED <<simulated_readings_output, history_df, historical_data>>
           ELSE LET prediction_kwh ==
                        Max(0, NetworkOutput(args.network, input_sequence_df'))
                IN  /\ simulated_readings_output' =
                           Append(simulated_readings_output,
                                  [timestamp |-> dt, predicted_kwh |-> prediction_kwh])
                    /\ history_df' = SetRow(history_df, dt, prediction_kwh)
                    /\ historical_data' =
                           HistoricalDataAfter(historical_data, dt, prediction_kwh)
        /\ UNCHANGED <<pc, window, args>>
        /\ DlLoopUnchanged

\* line 170, after the last date
DlPredictReturn ==
    /\ pc = "predict_loop"
    /\ window.prediction_start_time + window.frequency * Len(steps)
           > window.prediction_end_time
    /\ pc' = "predicted"
    /\ UNCHANGED <<historical_data, window, args, simulated_readings_output, steps,
                   history_df, feature_base_df, input_sequence_df>>
    /\ DlLoopUnchanged

DlLoopNext ==
    \/ DlPredictEnter
    \/ DlPredictIterate
    \/ DlPredictReturn

DlLoopSpec == DlLoopInit /\ [][DlLoopNext]_vars

----------------------------------------------------------------------------
(* calculate_forecast_metrics called directly on any actuals and predictions, *)
(* both sorted by timestamp as its docstring assumes.                         *)

ActualTs == {0, 15, 30}
PredictionTs == {15, 30, 45}
PredictedKwh == {0, 3}

\* the ascending sequences with one entry per timestamp of a subset of ts
RECURSIVE SortedSeqs(_, _)
SortedSeqs(ts, values) ==
    IF ts = {} THEN {<<>>}
    ELSE LET last == CHOOSE t \in ts : \A u \in ts : u <= t
         IN  SortedSeqs(ts \ {last}, values) \cup
             {Append(s, [timestamp |-> last, value |-> v]) :
                 s \in SortedSeqs(ts \ {last}, values), v \in values}

ActualsInputs ==
    {[i \in 1..Len(s) |-> Reading(s[i].timestamp, s[i].value)] :
        s \in SortedSeqs(ActualTs, Kwh)}

PredictionsInputs ==
    {[i \in 1..Len(s) |-> [timestamp |-> s[i].timestamp, predicted_kwh |-> s[i].value]] :
        s \in SortedSeqs(PredictionTs, PredictedKwh)}

MetricsInit ==
    /\ db_api = "db_manager"
    /\ clock = Clock0
    /\ EmptyStore
    /\ NewTwin
    /\ NoCall
    /\ NoLocals
    /\ historical_data = <<>>
    /\ actuals_in_simulation_range \in ActualsInputs
    /\ simulated_readings_output \in PredictionsInputs

\* variant: the predictions that found their actual are taken out of the list
CalculateForecastMetricsCall_Consuming ==
    /\ Len(steps) < MaxCalls
    /\ IF MetricsRaise(actuals_in_simulation_range, simulated_readings_output)
       THEN /\ raised' = Some("TypeError")
            /\ UNCHANGED metrics
       ELSE /\ metrics' = CalculateForecastMetrics(actuals_in_simulation_range,
                                                   simulated_readings_output)
            /\ UNCHANGED raised
    /\ simulated_readings_output' =
           SelectSeq(simulated_readings_output,
                     LAMBDA p : \A i \in 1..Len(actuals_in_simulation_range) :
                                    actuals_in_simulation_range[i].timestamp # p.timestamp)
    /\ steps' = Append(steps, "metrics")
    /\ pc' = "returned"
    /\ UNCHANGED <<db_api, system, history_df, feature_base_df, input_sequence_df, db_log, clock, store, forecasting_model, latest_real_reading,
                   nextInst, run, args, training_data, window, current_run_id,
                   register_error, historical_data,
                   actuals_in_simulation_range, result, loads, used>>

\* the function reads its two arguments and builds new lists; it may be called
\* again on the same arguments
CalculateForecastMetricsCall ==
    /\ Len(steps) < MaxCalls
    /\ IF MetricsRaise(actuals_in_simulation_range, simulated_readings_output)
       THEN /\ raised' = Some("TypeError")
            /\ UNCHANGED metrics
       ELSE /\ metrics' = CalculateForecastMetrics(actuals_in_simulation_range,
                                                   simulated_readings_output)
            /\ UNCHANGED raised
    /\ steps' = Append(steps, "metrics")
    /\ pc' = "returned"
    /\ UNCHANGED <<db_api, system, history_df, feature_base_df, input_sequence_df, db_log, clock, store, forecasting_model, latest_real_reading,
                   nextInst, run, args, training_data, window, current_run_id,
                   register_error, historical_data, simulated_readings_output,
                   actuals_in_simulation_range, result, loads, used>>

MetricsSpec == MetricsInit /\ [][CalculateForecastMetricsCall]_vars

----------------------------------------------------------------------------
(* The write functions of db_manager.py called directly, any caller, any     *)
(* arguments, possibly again with the arguments of the call before.          *)

MetricValues == {None, NaN, Fraction(1, 2)}

Prediction(ts, predicted_kwh, actual_kwh) ==
    [timestamp |-> ts, predicted_kwh |-> predicted_kwh, actual_kwh |-> actual_kwh]

PredictionBatches ==
    {<<>>,
     <<Prediction(0, Some(1), None)>>,
     <<Prediction(0, Some(2), Some(1))>>,
     <<Prediction(0, Some(1), None), Prediction(15, Some(1), None)>>,
     <<Prediction(0, Some(1), None), Prediction(0, Some(2), None)>>,
     <<Prediction(0, None, None)>>,
     <<Prediction(0, Fraction(1, 3), Fraction(1, 2)), Prediction(15, Some(1), Some(2))>>}

ReadingBatches ==
    {<<>>,
     <<Reading(0, Some(1))>>,
     <<Reading(0, Some(2))>>,
     <<Reading(0, None)>>,
     <<Reading(0, Some(1)), Reading(0, Some(2))>>,
     <<Reading(15, Some(2)), Reading(0, Some(2))>>}

DbInsertMeterReadings ==
    \E readings_data \in ReadingBatches :
        /\ Len(db_log) < MaxCalls
        /\ readings' = InsertMeterReadingsList(readings, readings_data)
        /\ db_log' = Append(db_log, DbCall("insert_meter_readings", <<readings_data>>))
        /\ UNCHANGED <<db_api, system, history_df, feature_base_df, input_sequence_df, clock, forecast_runs, forecast_predictions, twin, run, pc,
                       args, locals, result, raised, steps, loads, used>>

DbInsertForecastRun ==
    \E run_id \in RunIds, model_name \in {naive, seq} :
        /\ Len(db_log) < MaxCalls
        /\ forecast_runs' =
               InsertForecastRun(forecast_runs,
                   ForecastRun(run_id, model_name, 0, None, None, clock))
        /\ db_log' = Append(db_log, DbCall("insert_forecast_run", <<run_id, model_name>>))
        /\ UNCHANGED <<db_api, system, history_df, feature_base_df, input_sequence_df, clock, readings, forecast_predictions, twin, run, pc, args,
                       locals, result, raised, steps, loads, used>>

DbUpdateForecastRunMetrics ==
    \E run_id \in RunIds, m \in MetricValues :
        /\ Len(db_log) < MaxCalls
        /\ forecast_runs' = UpdateForecastRunMetrics(forecast_runs, run_id, m, m, clock)
        /\ db_log' = Append(db_log, DbCall("update_forecast_run_metrics", <<run_id, m, m>>))
        /\ UNCHANGED <<db_api, system, history_df, feature_base_df, input_sequence_df, clock, readings, forecast_predictions, twin, run, pc, args,
                       locals, result, raised, steps, loads, used>>

\* executemany in one transaction: a rejected row rolls the batch back and the
\* exception is re-raised
DbInsertForecastPredictions ==
    \E run_id \in RunIds, predictions_data \in PredictionBatches :
        /\ Len(db_log) < MaxCalls
        /\ forecast_predictions' =
               IF PredictionsRejected(forecast_runs, run_id, predictions_data)
               THEN forecast_predictions
               ELSE InsertForecastPredictions(forecast_predictions, run_id,
                                              predictions_data)
        /\ db_log' = Append(db_log, DbCall("insert_forecast_predictions",
                                           <<run_id, predictions_data>>))
        /\ UNCHANGED <<db_api, system, history_df, feature_base_df, input_sequence_df, clock, readings, forecast_runs, twin, run, pc, args,
                       locals, result, raised, steps, loads, used>>

RangeBounds == {0, 15, 30}

\* get_meter_readings_in_range called with a working connection; db_log keeps
\* the call, result what it returned
DbGetMeterReadingsInRange ==
    \E start_time \in RangeBounds, end_time \in RangeBounds :
        /\ Len(db_log) < MaxCalls
        /\ result' = GetMeterReadingsInRange(readings, start_time, end_time, TRUE)
        /\ db_log' = Append(db_log, DbCall("get_meter_readings_in_range",
                                           <<start_time, end_time>>))
        /\ UNCHANGED <<db_api, system, history_df, feature_base_df, input_sequence_df, clock, store, twin, run, pc, args, locals, raised,
                       steps, loads, used>>

\* get_forecast_predictions called with a working connection
DbGetForecastPredictions ==
    \E run_id \in RunIds :
        /\ Len(db_log) < MaxCalls
        /\ result' = GetForecastPredictions(forecast_predictions, run_id, TRUE)
        /\ db_log' = Append(db_log, DbCall("get_forecast_predictions", <<run_id>>))
        /\ UNCHANGED <<db_api, system, history_df, feature_base_df, input_sequence_df, clock, store, twin, run, pc, args, locals, raised,
                       steps, loads, used>>

StoreNext ==
    \/ Tick
    \/ DbInsertMeterReadings
    \/ DbInsertForecastRun
    \/ DbUpdateForecastRunMetrics
    \/ DbInsertForecastPredictions

StoreSpec == Init /\ [][StoreNext]_vars

\* the readings written and read
ReadingsNext ==
    \/ DbInsertMeterReadings
    \/ DbGetMeterReadingsInRange

ReadingsSpec == Init /\ [][ReadingsNext]_vars

\* the store once run 1 has been registered, and the predictions written and
\* read from there on
RegisteredInit ==
    /\ db_api = "db_manager"
    /\ clock = Clock0
    /\ readings = {}
    /\ forecast_runs = {ForecastRun(1, naive, 0, None, None, Clock0)}
    /\ forecast_predictions = {}
    /\ db_log = <<>>
    /\ NewTwin
    /\ NoCall
    /\ NoLocals
    /\ historical_data = <<>>
    /\ simulated_readings_output = <<>>
    /\ actuals_in_simulation_range = <<>>

PredictionsNext ==
    \/ DbInsertForecastPredictions
    \/ DbGetForecastPredictions

PredictionsSpec == RegisteredInit /\ [][PredictionsNext]_vars

----------------------------------------------------------------------------
(* main.py, the scraper endpoints of the API server.  flask_app.run serves   *)
(* each request in a thread of its own; an action is a statement of a        *)
(* handler, and between two statements the other thread may run.             *)

MaxProcesses == 3       \* Process objects made in a behaviour

\* Process.is_alive(): started and not ended; False before start()
IsAlive(p) == processes[p] = "alive"

\* `scraper_process and scraper_process.is_alive()`
ScraperRunning == scraper_process # None /\ IsAlive(Val(scraper_process))

AliveProcesses == {p \in 1..Len(processes) : IsAlive(p)}

At(t, line) == requests[t].line = line

Goto(t, line) == requests' = [requests EXCEPT ![t].line = line]

Respond(t, status) == requests' = [requests EXCEPT ![t] = Idle(Some(status))]

ServerUnchanged ==
    UNCHANGED <<db_api, scraper, database, db_log, clock, store, twin, run, pc, args, locals, result,
                raised, steps, loads, used, history_df, feature_base_df,
                input_sequence_df>>

\* a POST to /api/scraper/start or /api/scraper/stop reaches a free thread
Request(t) ==
    /\ At(t, "idle")
    /\ \E first \in {"start_302", "stop_325"} :
           requests' = [requests EXCEPT ![t] = [line |-> first, status |-> None]]
    /\ UNCHANGED <<scraper_process, stop_scraper_event, processes>>
    /\ ServerUnchanged

\* lines 302-304
StartCheck(t) ==
    /\ At(t, "start_302")
    /\ IF ScraperRunning THEN Respond(t, 409) ELSE Goto(t, "start_306")
    /\ UNCHANGED <<scraper_process, stop_scraper_event, processes>>
    /\ ServerUnchanged

\* lines 306-308
StartClear(t) ==
    /\ At(t, "start_306")
    /\ stop_scraper_event' = FALSE
    /\ Goto(t, "start_312")
    /\ UNCHANGED <<scraper_process, processes>>
    /\ ServerUnchanged

\* lines 312-313: a Process object, not started yet
StartCreate(t) ==
    /\ At(t, "start_312")
    /\ Len(processes) < MaxProcesses
    /\ processes' = Append(processes, "created")
    /\ scraper_process' = Some(Len(processes) + 1)
    /\ Goto(t, "start_314")
    /\ UNCHANGED stop_scraper_event
    /\ ServerUnchanged

\* lines 314-319: start() of the process the global names now; None has no
\* start, and a process started before refuses (AssertionError): both are
\* caught and answered 500
StartStart(t) ==
    /\ At(t, "start_314")
    /\ IF scraper_process # None /\ processes[Val(scraper_process)] = "created"
       THEN /\ processes' = [processes EXCEPT ![Val(scraper_process)] = "alive"]
            /\ Respond(t, 200)
       ELSE /\ Respond(t, 500)
            /\ UNCHANGED processes
    /\ UNCHANGED <<scraper_process, stop_scraper_event>>
    /\ ServerUnchanged

\* lines 325-327
StopCheck(t) ==
    /\ At(t, "stop_325")
    /\ IF ~ScraperRunning THEN Respond(t, 200) ELSE Goto(t, "stop_331")
    /\ UNCHANGED <<scraper_process, stop_scraper_event, processes>>
    /\ ServerUnchanged

\* lines 329-331: the event is an object, never None after the server started
StopSet(t) ==
    /\ At(t, "stop_331")
    /\ stop_scraper_event' = TRUE
    /\ Goto(t, "stop_333")
    /\ UNCHANGED <<scraper_process, processes>>
    /\ ServerUnchanged

\* line 333: join(timeout=30) returns when the process has ended or the time
\* is over; on None or on a process not started it raises, which nothing
\* catches here (Flask answers 500)
StopJoin(t) ==
    /\ At(t, "stop_333")
    /\ IF scraper_process = None \/ processes[Val(scraper_process)] = "created"
       THEN Respond(t, 500)
       ELSE Goto(t, "stop_334")
    /\ UNCHANGED <<scraper_process, stop_scraper_event, processes>>
    /\ ServerUnchanged

\* lines 334-337: terminate() when still alive; the process may outlive the
\* 5 seconds of the second join
StopTerminate(t) ==
    /\ At(t, "stop_334")
    /\ IF scraper_process = None
       THEN /\ Respond(t, 500)
            /\ UNCHANGED processes
       ELSE /\ Goto(t, "stop_339")
            /\ IF IsAlive(Val(scraper_process))
               THEN \E ended \in BOOLEAN :
                        processes' = [processes EXCEPT ![Val(scraper_process)] =
                                         IF ended THEN "dead" ELSE "alive"]
               ELSE UNCHANGED processes
    /\ UNCHANGED <<scraper_process, stop_scraper_event>>
    /\ ServerUnchanged

\* lines 339-345
StopFinish(t) ==
    /\ At(t, "stop_339")
    /\ IF scraper_process = None
       THEN /\ Respond(t, 500)
            /\ UNCHANGED scraper_process
       ELSE IF ~IsAlive(Val(scraper_process))
       THEN /\ scraper_process' = None
            /\ Respond(t, 200)
       ELSE /\ Respond(t, 500)
            /\ UNCHANGED scraper_process
    /\ UNCHANGED <<stop_scraper_event, processes>>
    /\ ServerUnchanged

\* run_scraper_process: scraper.main returns once it sees the event set
ScraperExits ==
    \E p \in AliveProcesses :
        /\ stop_scraper_event
        /\ processes' = [processes EXCEPT ![p] = "dead"]
        /\ UNCHANGED <<scraper_process, stop_scraper_event, requests>>
        /\ ServerUnchanged

ServerInit ==
    /\ db_api = "db_manager"
    /\ clock = Clock0
    /\ EmptyStore
    /\ NewTwin
    /\ NoCall
    /\ NoLocals
    /\ historical_data = <<>>
    /\ simulated_readings_output = <<>>
    /\ actuals_in_simulation_range = <<>>

ServerNext ==
    \/ \E t \in Workers : Request(t)
    \/ \E t \in Workers : StartCheck(t)
    \/ \E t \in Workers : StartClear(t)
    \/ \E t \in Workers : StartCreate(t)
    \/ \E t \in Workers : StartStart(t)
    \/ \E t \in Workers : StopCheck(t)
    \/ \E t \in Workers : StopSet(t)
    \/ \E t \in Workers : StopJoin(t)
    \/ \E t \in Workers : StopTerminate(t)
    \/ \E t \in Workers : StopFinish(t)
    \/ ScraperExits

ServerSpec == ServerInit /\ [][ServerNext]_vars

----------------------------------------------------------------------------
(* scraper.py, main(stop_event): the scraper process from the wait for the  *)
(* dashboard to its end.  pc is the line main is at; each browser and       *)
(* database call returns, with its result or with an exception.             *)

\* what a row of the portal's table gives: a timestamp that parses or not, an
\* energy value that parses or not
RawRow(ts, kwh) == [timestamp |-> ts, energy_kwh_import |-> kwh]

\* what extract_all_data_from_paginated_table may hand to main
RawResults ==
    {<<>>,
     <<RawRow(None, Some(1))>>,
     <<RawRow(Some(0), Some(1))>>,
     <<RawRow(Some(15), None), RawRow(Some(0), Some(2)), RawRow(None, None)>>}

\* process_raw_data over the rows: a row whose timestamp does not parse is
\* dropped
ProcessedReadings(raw) ==
    LET valid == SelectSeq(raw, LAMBDA row : row.timestamp # None)
    IN  [i \in 1..Len(valid) |->
            Reading(Val(valid[i].timestamp), valid[i].energy_kwh_import)]

\* `stop_event and stop_event.is_set()`
StopRequested == stop_scraper_event

ScraperUnchanged ==
    UNCHANGED <<db_api, server, database, db_log, clock, forecast_runs, forecast_predictions,
                twin, run, args, locals, result, raised, steps, loads, used,
                history_df, feature_base_df, input_sequence_df, all_raw_data,
                page_count, previous_page_first_row_content_str>>

\* the API server's stop endpoint sets the event (main.py:331)
SetStopEvent ==
    /\ ~stop_scraper_event
    /\ pc # "terminated"
    /\ stop_scraper_event' = TRUE
    /\ UNCHANGED <<scraper_process, processes, requests>>
    /\ UNCHANGED <<db_api, db_log, clock, store, twin, run, pc, args, locals, result,
                   raised, steps, loads, used, history_df, feature_base_df,
                   input_sequence_df, scraper, database>>

\* lines 320-337: the wait for the dashboard, then the meter page
WaitForDashboard ==
    /\ pc = "wait_dashboard"
    /\ IF StopRequested THEN pc' = "finally"
       ELSE \E dashboard_reached \in BOOLEAN :
                pc' = IF dashboard_reached THEN "loop_top" ELSE "finally"
    /\ UNCHANGED <<readings, first_run_data_fetch, raw_extracted_readings>>
    /\ ScraperUnchanged

\* lines 339-341: the check at the top of the loop, then the cycle starts
CycleStart ==
    /\ pc = "loop_top"
    /\ pc' = IF StopRequested THEN "finished" ELSE "cycle"
    /\ UNCHANGED <<readings, first_run_data_fetch, raw_extracted_readings>>
    /\ ScraperUnchanged

\* lines 342-359, 379-388: the page is refreshed and the table extracted; a
\* WebDriverException goes to the recovery, which breaks the loop when it
\* fails; any other exception is logged
Extract ==
    /\ pc = "cycle"
    /\ \E outcome \in {"extracted", "recovered", "recovery_failed", "error"} :
          IF outcome = "extracted"
          THEN /\ \E raw \in RawResults :
                      raw_extracted_readings' = IF StopRequested THEN <<>> ELSE raw
               /\ first_run_data_fetch' = FALSE
               /\ pc' = "after_extract"
          ELSE /\ pc' = IF outcome = "recovery_failed" THEN "finished"
                        ELSE "before_sleep"
               /\ UNCHANGED <<first_run_data_fetch, raw_extracted_readings>>
    /\ UNCHANGED readings
    /\ ScraperUnchanged

\* variant: the event is not looked at after the extraction
AfterExtract_NoCheck ==
    /\ pc = "after_extract"
    /\ pc' = "process"
    /\ UNCHANGED <<readings, first_run_data_fetch, raw_extracted_readings>>
    /\ ScraperUnchanged

\* line 361
AfterExtract ==
    /\ pc = "after_extract"
    /\ pc' = IF StopRequested THEN "finished" ELSE "process"
    /\ UNCHANGED <<readings, first_run_data_fetch, raw_extracted_readings>>
    /\ ScraperUnchanged

\* lines 363-377: the rows that process_raw_data accepts are inserted; an
\* exception of the insert is logged by the handler of line 388
ProcessAndInsert ==
    /\ pc = "process"
    /\ \E inserted \in BOOLEAN :
          readings' = IF inserted
                      THEN InsertMeterReadingsList(readings,
                                                   ProcessedReadings(raw_extracted_readings))
                      ELSE readings
    /\ pc' = "before_sleep"
    /\ UNCHANGED <<first_run_data_fetch, raw_extracted_readings>>
    /\ ScraperUnchanged

\* line 389
BeforeSleep ==
    /\ pc = "before_sleep"
    /\ pc' = IF StopRequested THEN "finished" ELSE "sleep"
    /\ UNCHANGED <<readings, first_run_data_fetch, raw_extracted_readings>>
    /\ ScraperUnchanged

\* lines 390-395: the sleep in segments, each looking at the event
Sleep ==
    /\ pc = "sleep"
    /\ pc' = IF StopRequested THEN "finished" ELSE "loop_top"
    /\ UNCHANGED <<readings, first_run_data_fetch, raw_extracted_readings>>
    /\ ScraperUnchanged

\* lines 397-403: after the loop, the finally clause
LoopFinished ==
    /\ pc \in {"finished", "finally"}
    /\ pc' = "terminated"
    /\ UNCHANGED <<readings, first_run_data_fetch, raw_extracted_readings>>
    /\ ScraperUnchanged

ScraperInit ==
    /\ db_api = "db_manager"
    /\ clock = Clock0
    /\ EmptyStore
    /\ NewTwin
    /\ run = 0
    /\ pc = "wait_dashboard"
    /\ args = None
    /\ result = EmptyDict
    /\ raised = None
    /\ steps = <<>>
    /\ loads = <<>>
    /\ NoLocals
    /\ historical_data = <<>>
    /\ simulated_readings_output = <<>>
    /\ actuals_in_simulation_range = <<>>

\* the steps of the scraper process itself
ScraperStep ==
    \/ WaitForDashboard
    \/ CycleStart
    \/ Extract
    \/ AfterExtract
    \/ ProcessAndInsert
    \/ BeforeSleep
    \/ Sleep
    \/ LoopFinished

ScraperNext == SetStopEvent \/ ScraperStep

\* the process runs as long as it has a statement to run
ScraperSpec == ScraperInit /\ [][ScraperNext]_vars /\ WF_vars(ScraperStep)

----------------------------------------------------------------------------
(* scraper.py, extract_all_data_from_paginated_table, an action per part of *)
(* an iteration of its loop.  A row is the number of the page it came from; *)
(* args keeps full_fetch.                                                   *)

MAX_READINGS(full_fetch) == IF full_fetch THEN 100 ELSE 10

max_pages_to_try(full_fetch) == IF full_fetch THEN 10 ELSE 2

\* the rows extract_data_from_table may find on a page
PageSizes == {0, 1, 10, 120}

\* variant: the whole page is taken
Take_All(current_page_data, remaining_needed) == current_page_data

\* current_page_data[:remaining_needed]
Take(current_page_data, remaining_needed) ==
    IF Len(current_page_data) <= remaining_needed THEN current_page_data
    ELSE SubSeq(current_page_data, 1, remaining_needed)

PaginationUnchanged ==
    UNCHANGED <<db_api, server, database, db_log, clock, store, twin, run, locals, result,
                raised, steps, loads, used, history_df, feature_base_df,
                input_sequence_df, first_run_data_fetch, raw_extracted_readings>>

\* lines 207-214
PaginationEnter ==
    \E full_fetch \in BOOLEAN :
        /\ pc \in {"idle", "returned"}
        /\ args' = [full_fetch |-> full_fetch]
        /\ all_raw_data' = <<>>
        /\ page_count' = 0
        /\ previous_page_first_row_content_str' = None
        /\ pc' = "while"
        /\ PaginationUnchanged

\* lines 216-225: the loop's condition, the stop event, the page counter
PaginationNextPage ==
    /\ pc = "while"
    /\ IF Len(all_raw_data) >= MAX_READINGS(args.full_fetch) \/ StopRequested
       THEN /\ pc' = "returned"
            /\ UNCHANGED page_count
       ELSE /\ page_count' = page_count + 1
            /\ pc' = IF page_count' > max_pages_to_try(args.full_fetch)
                     THEN "returned" ELSE "extract"
    /\ UNCHANGED <<args, all_raw_data, previous_page_first_row_content_str>>
    /\ PaginationUnchanged

\* lines 227-245: the page's rows; identical marks a page whose first row is
\* the first row of the page before
PaginationExtractPage ==
    \E size \in PageSizes, identical \in BOOLEAN :
        LET current_page_data == [i \in 1..size |-> page_count]
            current_first_row_content_str ==
                IF identical /\ previous_page_first_row_content_str # None
                THEN previous_page_first_row_content_str
                ELSE Some(page_count)
            remaining_needed == MAX_READINGS(args.full_fetch) - Len(all_raw_data)
        IN  /\ pc = "extract"
            /\ IF current_page_data = <<>>
                  \/ (page_count > 1 /\ current_first_row_content_str =
                                            previous_page_first_row_content_str)
               THEN /\ pc' = "returned"
                    /\ UNCHANGED <<all_raw_data, previous_page_first_row_content_str>>
               ELSE /\ previous_page_first_row_content_str' =
                           current_first_row_content_str
                    /\ all_raw_data' =
                           all_raw_data \o Take(current_page_data, remaining_needed)
                    /\ pc' = IF Len(all_raw_data') >= MAX_READINGS(args.full_fetch)
                             THEN "returned" ELSE "next"
            /\ UNCHANGED <<args, page_count>>
            /\ PaginationUnchanged

\* lines 248-287: the next button is disabled or missing, or the click fails:
\* the loop ends; it is clicked, and the page changes or stays: the loop goes on
PaginationClickNext ==
    /\ pc = "next"
    /\ \E button \in {"disabled", "missing", "error", "clicked", "stuck",
                      "stuck_disabled", "stuck_missing"} :
          pc' = IF button \in {"clicked", "stuck"} THEN "while" ELSE "returned"
    /\ UNCHANGED <<args, all_raw_data, page_count, previous_page_first_row_content_str>>
    /\ PaginationUnchanged

\* the steps of a call under way
PaginationStep ==
    \/ PaginationNextPage
    \/ PaginationExtractPage
    \/ PaginationClickNext

PaginationNext ==
    \/ PaginationEnter
    \/ SetStopEvent
    \/ PaginationStep

\* a call under way goes on: every call of the browser returns
PaginationSpec == ServerInit /\ [][PaginationNext]_vars /\ WF_vars(PaginationStep)

----------------------------------------------------------------------------
(* db_manager.py, the connection of an operation: get_db_conn, the body, the *)
(* except clause, return_db_conn in the finally clause.  The operations are  *)
(* called one after the other; what they do to the tables is left out here.  *)

maxconn == 10           \* SimpleConnectionPool(minconn=1, maxconn=10)

\* the functions of db_manager that take a connection: those whose except
\* clause rolls back and raises again, and those that log and return
Operations ==
    {[name |-> "insert_forecast_run", reraises |-> TRUE],
     [name |-> "insert_meter_readings", reraises |-> TRUE],
     [name |-> "get_meter_readings_in_range", reraises |-> FALSE],
     [name |-> "get_forecast_predictions", reraises |-> FALSE]}

PoolUnchanged ==
    UNCHANGED <<db_api, server, scraper, db_log, clock, store, twin, run, locals,
                result, steps, loads, used, history_df, feature_base_df,
                input_sequence_df>>

\* the call of an operation: conn = None
OperationBegin ==
    \E operation \in Operations :
        /\ pc \in {"idle", "ended"}
        /\ args' = operation
        /\ conn' = None
        /\ raised' = None
        /\ pc' = "get_db_conn"
        /\ UNCHANGED <<DB_POOL, connection_lost>>
        /\ PoolUnchanged

\* lines 99-113: getconn() raises when the pool has handed out maxconn
\* connections, and the operation's conn stays None
GetDbConn ==
    /\ pc = "get_db_conn"
    /\ IF Cardinality(DB_POOL) >= maxconn
       THEN /\ raised' = IF args.reraises THEN Some("PoolError") ELSE None
            /\ pc' = "ended"
            /\ UNCHANGED <<DB_POOL, conn, connection_lost>>
       ELSE LET c == CHOOSE c \in 1..maxconn :
                         c \notin DB_POOL /\ \A d \in 1..(c - 1) : d \in DB_POOL
            IN  /\ DB_POOL' = DB_POOL \cup {c}
                /\ conn' = Some(c)
                /\ pc' = "body"
                /\ UNCHANGED <<connection_lost, raised>>
    /\ UNCHANGED args
    /\ PoolUnchanged

\* the statements and the commit, then the except clause when they raise: a
\* statement the server refuses, or a link that goes down
Body ==
    /\ pc = "body"
    /\ \E outcome \in {"committed", "refused", "lost"} :
          /\ connection_lost' = IF outcome = "lost"
                                THEN connection_lost \cup {Val(conn)}
                                ELSE connection_lost
          /\ raised' = IF outcome = "committed" \/ ~args.reraises THEN None
                       ELSE IF outcome = "refused" THEN Some("DatabaseError")
                       ELSE Some("InterfaceError")
    /\ pc' = "finally"
    /\ UNCHANGED <<DB_POOL, conn, args>>
    /\ PoolUnchanged

\* lines 115-126: rollback raises on a connection whose link is gone; the
\* exception is logged and putconn is not reached
ReturnDbConn(pool_used, c, lost) ==
    IF c \in lost THEN pool_used ELSE pool_used \ {c}

\* the finally clause: if conn: return_db_conn(conn)
Finally ==
    /\ pc = "finally"
    /\ DB_POOL' = IF conn # None THEN ReturnDbConn(DB_POOL, Val(conn), connection_lost)
                  ELSE DB_POOL
    /\ pc' = "ended"
    /\ UNCHANGED <<conn, connection_lost, args, raised>>
    /\ PoolUnchanged

PoolNext ==
    \/ OperationBegin
    \/ GetDbConn
    \/ Body
    \/ Finally

PoolSpec == ServerInit /\ [][PoolNext]_vars

----------------------------------------------------------------------------
(* Properties *)

Did(step) == \E i \in 1..Len(steps) : steps[i] = step

IsPrefix(s, t) == Len(s) <= Len(t) /\ \A i \in 1..Len(s) : s[i] = t[i]

InsufficientHistory ==
    Did("fetch") /\ Len(historical_data) < RequiredHistoryCount(args.model_name)

SufficientHistory ==
    Did("fetch") /\ Len(historical_data) >= RequiredHistoryCount(args.model_name)

\* C1: when the fetched history has fewer points than the requested model's
\* get_required_history_count(), the requested model is never trained: the
\* model trained is the baseline, and a returned result reports the baseline
\* with a non-null fallback reason.
C1_FallbackOnInsufficientHistory ==
    (InsufficientHistory /\ Did("train") /\ args.model_name # baseline_model) =>
        /\ forecasting_model.name = baseline_model
        /\ pc = "done" =>
              /\ Get(result, "model_used") = baseline_model
              /\ Get(result, "fallback_reason") # None

\* C2: a load error of the requested model reaches the caller only when the
\* baseline model could not be loaded either, that is only after the call has
\* tried to load the baseline.
C2_LoadFailureFallsBackToBaseline ==
    (Raised /\ steps = <<"select">>) =>
        \E i \in 1..Len(loads) : loads[i] = baseline_model

\* C3: when the requested model loads and the history has at least
\* get_required_history_count() points, the model that is trained and asked to
\* predict is the requested one, and the returned result names it as the model
\* used and carries no fallback reason.
C3_RequestedModelUsed ==
    SufficientHistory =>
        /\ forecasting_model # None
        /\ forecasting_model.name = args.model_name
        /\ pc = "done" =>
              /\ Get(result, "model_used") = args.model_name
              /\ Get(result, "fallback_reason") = None
              /\ <<forecasting_model.inst, run>> \in used

C3_Witness ==
    /\ pc = "done"
    /\ args.model_name = seq
    /\ Len(historical_data) >= SeqRequired
    /\ Get(result, "model_used") = seq

\* C4: when train raises, the result returned carries the model used, the
\* fallback reason "training failed", null metrics and a null run id.
C4_TrainingFailureResult ==
    pc = "failed" =>
        /\ Get(result, "model_used") # None
        /\ Get(result, "fallback_reason") = Some("training failed")
        /\ Get(result, "metrics") = None
        /\ Get(result, "run_id") = None

\* C5: the window that is registered, passed to predict and returned has
\* start < end for every horizon; when start + horizon is not after start the
\* end is start plus one 15-minute step.
C5_WindowNotEmpty ==
    window # None =>
        /\ window.prediction_start_time < window.prediction_end_time
        /\ args.prediction_horizon_hours <= 0 =>
              window.prediction_end_time = window.prediction_start_time + Step
        /\ pc = "done" =>
              /\ result.simulation_start = window.prediction_start_time
              /\ result.simulation_end = window.prediction_end_time

C5_Witness ==
    /\ pc = "done"
    /\ args.prediction_horizon_hours < 0
    /\ result.simulation_end = result.simulation_start + Step
    /\ Len(result.simulated_readings) = 1

\* C6: whenever predict has been invoked, the store already holds the
\* ForecastRun record of this invocation, under the invocation's run id.
C6_RunRecordedBeforePredict ==
    Did("predict") =>
        /\ current_run_id # None
        /\ \E r \in forecast_runs : Some(r.run_id) = current_run_id

ClaimedOrder ==
    <<"fetch", "select", "train", "window", "register", "predict", "evaluate",
      "persist", "done">>

CodeOrder ==
    <<"select", "fetch", "train", "window", "register", "predict", "evaluate",
      "persist", "done">>

C9_FreshInstancePerInvocation ==
    \A u \in used : \A v \in used : u[1] = v[1] => u[2] = v[2]

\* C10: an invocation that returns a result has registered its run under a
\* run id generated for it: the returned run_id is not null, a stored
\* ForecastRun has it, and no other stored run has it.
C10_RunIdGeneratedAndReturned ==
    pc = "done" =>
        /\ result.run_id # None
        /\ Cardinality({r \in forecast_runs : Some(r.run_id) = result.run_id}) = 1

MetricsUnavailable == metrics # None /\ metrics.mae = NaN /\ metrics.rmse = NaN

RepeatedCall ==
    /\ Len(db_log) > 0
    /\ Len(db_log') = Len(db_log) + 1
    /\ Last(db_log').op = Last(db_log).op
    /\ Last(db_log').args = Last(db_log).args

OneRunPerRunId ==
    \A r \in forecast_runs : \A q \in forecast_runs : r.run_id = q.run_id => r = q

OnePredictionPerRunIdAndTimestamp ==
    \A r \in forecast_predictions : \A q \in forecast_predictions :
        (r.run_id = q.run_id /\ r.timestamp = q.timestamp) => r = q

WithoutRunTimestamp(runs) == {[r EXCEPT !.run_timestamp = 0] : r \in runs}

OneReadingPerTimestamp ==
    \A r \in readings : \A q \in readings : r.timestamp = q.timestamp => r = q

\* C12: after any sequence of insert_meter_readings calls the store holds at
\* most one reading per (meter id, timestamp), and a stored reading is never
\* changed or removed: every step keeps every stored reading as it is.
C12_ReadingsUniqueAndImmutable ==
    [][/\ OneReadingPerTimestamp'
       /\ \A r \in readings : r \in readings']_vars

\* a reading with another value was inserted at a stored timestamp
C12_Witness ==
    /\ Len(db_log) >= 2
    /\ db_log[Len(db_log) - 1].op = "insert_meter_readings"
    /\ db_log[Len(db_log) - 1].args = <<(<<Reading(0, Some(1))>>)>>
    /\ db_log[Len(db_log)].op = "insert_meter_readings"
    /\ db_log[Len(db_log)].args = <<(<<Reading(15, Some(2)), Reading(0, Some(2))>>)>>
    /\ readings = {Reading(0, Some(1)), Reading(15, Some(2))}

\* the history is not empty and t is the timestamp of its latest reading
LatestHistorical(t) ==
    /\ \E i \in 1..Len(historical_data) : historical_data[i].timestamp = t
    /\ \A i \in 1..Len(historical_data) : historical_data[i].timestamp <= t

\* C13 (as stated): with a non-empty history the window starts one 15-minute
\* interval after the latest historical reading and ends at that start plus
\* the requested horizon, whatever the order of the history.
C13_WindowFromLatestReading ==
    (window # None /\ historical_data # <<>>) =>
        /\ LatestHistorical(window.prediction_start_time - Step)
        /\ window.prediction_end_time =
               window.prediction_start_time + 60 * args.prediction_horizon_hours

\* C13 (amended): with a non-empty history the window starts one 15-minute
\* interval after the latest historical reading, whatever the order of the
\* history; it ends at that start plus the requested horizon when the horizon
\* is positive, and at the start plus 15 minutes otherwise.
C13_WindowFromLatestReadingCorrected ==
    (window # None /\ historical_data # <<>>) =>
        /\ LatestHistorical(window.prediction_start_time - Step)
        /\ window.prediction_end_time =
               IF args.prediction_horizon_hours > 0
               THEN window.prediction_start_time + 60 * args.prediction_horizon_hours
               ELSE window.prediction_start_time + Step

\* a history whose latest reading is not its last element
C13_Witness ==
    /\ pc = "register"
    /\ Len(historical_data) = 3
    /\ historical_data[1].timestamp > historical_data[3].timestamp
    /\ historical_data[1].timestamp > historical_data[2].timestamp
    /\ window.prediction_start_time = historical_data[1].timestamp + Step
    /\ args.prediction_horizon_hours = 1
    /\ window.prediction_end_time = window.prediction_start_time + 60

\* C14: with an empty history and no latest reading the prediction start is a
\* quarter-hour boundary, the earliest one that is not before the current
\* time (truncated to the minute), hence less than 15 minutes after it.
C14_StartAtNextQuarterHour ==
    (window # None /\ historical_data = <<>> /\ latest_real_reading = None) =>
        /\ (window.prediction_start_time % 60) \in {0, 15, 30, 45}
        /\ window.prediction_start_time >= clock
        /\ window.prediction_start_time - clock < 15
        /\ \A t \in clock..(window.prediction_start_time - 1) :
              (t % 60) \notin {0, 15, 30, 45}

\* the current time is on a quarter hour and is the start
C14_Witness ==
    /\ pc = "register"
    /\ historical_data = <<>>
    /\ latest_real_reading = None
    /\ clock = 45
    /\ window.prediction_start_time = 45

ExplicitWindowNotBeforeEnd ==
    /\ args.prediction_start # None /\ ~FromIsoFormatRaises(args.prediction_start)
    /\ args.prediction_end # None /\ ~FromIsoFormatRaises(args.prediction_end)
    /\ FromIsoFormat(args.prediction_start) >= FromIsoFormat(args.prediction_end)

\* C15: when the command is given an explicit window whose start is not before
\* its end, it ends by raising InvalidWindowError to its caller, and no model
\* has been trained, no run registered and no prediction produced.
C15_InvalidWindowRaises ==
    (pc = "cli_returned" /\ ExplicitWindowNotBeforeEnd) =>
        /\ raised = Some("InvalidWindowError")
        /\ used = {}
        /\ forecast_runs = {}
        /\ simulated_readings_output = <<>>

\* the model the latest predict was called on was able to predict: a
\* BaselineModel that is trained, a DlModel given enough history
TrainedModel ==
    IF forecasting_model.name = baseline_model THEN forecasting_model.is_trained
    ELSE DlCanPredict(historical_data)

\* C16: for a window with start < end and a positive step, the series a
\* trained model's predict returns starts at the window's start, has all its
\* timestamps in [start, end], consecutive ones exactly one step apart, and
\* has a value for every step tick of [start, end].
C16_SeriesOnTheGrid ==
    (pc = "predicted" /\ TrainedModel
        /\ window.prediction_start_time < window.prediction_end_time) =>
        LET series == simulated_readings_output
        IN  /\ series # <<>>
            /\ series[1].timestamp = window.prediction_start_time
            /\ \A i \in 1..Len(series) :
                  /\ series[i].timestamp >= window.prediction_start_time
                  /\ series[i].timestamp <= window.prediction_end_time
            /\ \A i \in 1..(Len(series) - 1) :
                  series[i + 1].timestamp = series[i].timestamp + window.frequency
            /\ series[Len(series)].timestamp + window.frequency
                  > window.prediction_end_time

\* the end of the window is a tick and has its value
C16_Witness ==
    /\ pc = "predicted"
    /\ forecasting_model.name = dl_model
    /\ Len(historical_data) = REQUIRED_HISTORY_FOR_FEATURES
    /\ window = PredictArgs(0, 30, 15)
    /\ Len(simulated_readings_output) = 3
    /\ simulated_readings_output[3].timestamp = 30

\* C17: BaselineModel.train with an empty history raises nothing and leaves
\* the model untrained, and predict on an untrained model returns the empty
\* sequence for every window and raises nothing.
C17_UntrainedIsSafe ==
    forecasting_model.name = baseline_model =>
        /\ pc = "trained" => raised = None
        /\ (pc = "trained" /\ historical_data = <<>>) => ~forecasting_model.is_trained
        /\ (pc = "predicted" /\ ~forecasting_model.is_trained) =>
              simulated_readings_output = <<>> /\ raised = None

\* a model that had been trained, then trained on an empty history, predicts
C17_Witness ==
    /\ pc = "predicted"
    /\ forecasting_model.name = baseline_model
    /\ forecasting_model.targets # {}
    /\ ~forecasting_model.is_trained
    /\ historical_data = <<>>
    /\ window.prediction_start_time < window.prediction_end_time
    /\ simulated_readings_output = <<>>

\* the timestamps that both the actuals and the predictions of the call have
Matched ==
    {actuals_in_simulation_range[i].timestamp :
        i \in 1..Len(actuals_in_simulation_range)}
    \cap {simulated_readings_output[i].timestamp :
        i \in 1..Len(simulated_readings_output)}

\* C18: when no prediction timestamp occurs among the actuals' timestamps,
\* either input being empty included, calculate_forecast_metrics raises
\* nothing and returns NaN for mae and for rmse, never zero.
C18_NoOverlapGivesNaN ==
    (pc = "returned" /\ Matched = {}) =>
        /\ raised = None
        /\ metrics = [mae |-> NaN, rmse |-> NaN]

\* both inputs non-empty, an actual without a value among them
C18_Witness ==
    /\ pc = "returned"
    /\ Matched = {}
    /\ Len(simulated_readings_output) = 2
    /\ \E i \in 1..Len(actuals_in_simulation_range) :
          actuals_in_simulation_range[i].energy_kwh_import = None
    /\ metrics # None
    /\ metrics.mae = NaN

\* the actual and the predicted value of a timestamp of this call
ActualOf(t) ==
    (CHOOSE a \in {actuals_in_simulation_range[i] :
                      i \in 1..Len(actuals_in_simulation_range)} :
        a.timestamp = t).energy_kwh_import

PredictedOf(t) ==
    (CHOOSE p \in {simulated_readings_output[i] :
                      i \in 1..Len(simulated_readings_output)} :
        p.timestamp = t).predicted_kwh

Diff(t) == Val(ActualOf(t)) - PredictedOf(t)

RECURSIVE SumAbsDiff(_)
SumAbsDiff(ts) ==
    IF ts = {} THEN 0
    ELSE LET t == CHOOSE u \in ts : TRUE
         IN  Abs(Diff(t)) + SumAbsDiff(ts \ {t})

RECURSIVE SumSquaredDiff(_)
SumSquaredDiff(ts) ==
    IF ts = {} THEN 0
    ELSE LET t == CHOOSE u \in ts : TRUE
         IN  Diff(t) * Diff(t) + SumSquaredDiff(ts \ {t})

\* C19: the metrics calculate_forecast_metrics returns are those of the
\* pairs (actual, prediction) with the same timestamp and of nothing else:
\* mae is the mean of |actual - predicted| over the pairs, rmse the square
\* root of the mean of (actual - predicted)^2 over them, and the inputs with
\* the unmatched predictions and actuals removed give the same result.
C19_MetricsOverMatchedPairs ==
    (pc = "returned" /\ raised = None /\ Matched # {}) =>
        LET in_matched(x) == x.timestamp \in Matched
        IN  /\ metrics.mae = <<SumAbsDiff(Matched), Cardinality(Matched)>>
            /\ metrics.rmse = <<SumSquaredDiff(Matched), Cardinality(Matched)>>
            /\ metrics =
                  CalculateForecastMetrics(
                      SelectSeq(actuals_in_simulation_range, in_matched),
                      SelectSeq(simulated_readings_output, in_matched))

\* two pairs, one actual and one prediction without a partner
C19_Witness ==
    /\ pc = "returned"
    /\ raised = None
    /\ Matched = {15, 30}
    /\ Len(actuals_in_simulation_range) = 3
    /\ Len(simulated_readings_output) = 3
    /\ metrics.mae = <<3, 2>>
    /\ metrics.rmse = <<5, 2>>

C22_LoadFailures ==
    (loads # <<>> /\ Did("select") /\ ~Did("fetch")) =>
        LET model_name == Last(loads)
        IN  /\ ModuleClasses(model_name) = NoModule =>
                  /\ raised = Some("ValueError")
                  /\ (forecasting_model = None \/ forecasting_model.name # model_name)
            /\ (raised # None /\ ModuleClasses(model_name) # NoModule) =>
                  (forecasting_model = None \/ forecasting_model.name # model_name)

\* C23: a load for a model shipped under src/models (baseline_model,
\* dl_model) finds its class: it does not fail as not found, and when it
\* returns, the twin holds an instance whose name is the name asked for.
C23_ShippedModelsResolve ==
    (loads # <<>> /\ Did("select") /\ ~Did("fetch")
        /\ Last(loads) \in {baseline_model, dl_model}) =>
        /\ raised # Some("ValueError")
        /\ raised = None =>
              (forecasting_model # None /\ forecasting_model.name = Last(loads))

\* C24: DlModel.predict given fewer records than REQUIRED_HISTORY_FOR_FEATURES
\* returns the empty list and raises nothing, whatever the window and the step.
C24_ShortHistoryPredictsNothing ==
    (pc = "predicted" /\ forecasting_model.name = dl_model
        /\ Len(historical_data) < REQUIRED_HISTORY_FOR_FEATURES) =>
        /\ simulated_readings_output = <<>>
        /\ raised = None

\* four steps asked for, one record short of the requirement
C24_Witness ==
    /\ pc = "predicted"
    /\ forecasting_model.name = dl_model
    /\ Len(historical_data) = REQUIRED_HISTORY_FOR_FEATURES - 1
    /\ window = PredictArgs(0, 45, 15)
    /\ simulated_readings_output = <<>>
    /\ raised = None

\* C25: the number of records DlModel.get_required_history_count() returns is
\* at least its longest target lag plus SEQUENCE_LENGTH.
C25_RequiredHistoryCoversLagAndSequence ==
    forecasting_model.name = dl_model =>
        RequiredHistoryCount(forecasting_model.name) >= LongestLag + SEQUENCE_LENGTH

\* the latest call on the store was op
LatestCall(op) == db_log # <<>> /\ Last(db_log).op = op

\* C26: get_meter_readings_in_range(meter, start, end) returns exactly the
\* stored readings with start <= timestamp < end, in ascending order of
\* timestamp: a reading stamped exactly at end is not returned.
C26_RangeIsHalfOpen ==
    LatestCall("get_meter_readings_in_range") =>
        LET start_time == Last(db_log).args[1]
            end_time == Last(db_log).args[2]
        IN  /\ {result[i] : i \in 1..Len(result)} =
                  {r \in readings : r.timestamp >= start_time /\ r.timestamp < end_time}
            /\ \A i \in 1..(Len(result) - 1) :
                  result[i].timestamp < result[i + 1].timestamp

WeatherUnavailable == args # None /\ args.weather.status \in {"failed", "empty"}

\* C28: when the weather provider fails or returns an empty series,
\* BaselineModel.train and BaselineModel.predict on a window that is not empty
\* raise nothing, and every row given to the regressor has its weather value,
\* which is zero.
C28_WeatherFailureIsHarmless ==
    (forecasting_model.name = baseline_model /\ WeatherUnavailable
        /\ (pc = "predicted" =>
                window.prediction_start_time <= window.prediction_end_time)) =>
        /\ raised = None
        /\ \A i \in 1..Len(forecasting_model.regressor_input) :
              forecasting_model.regressor_input[i].temp = Some(0)

\* a model fitted while the provider was failing, to two rows
C28_Witness ==
    /\ pc = "trained"
    /\ forecasting_model.name = baseline_model
    /\ args.weather.status = "failed"
    /\ forecasting_model.is_trained
    /\ Len(forecasting_model.regressor_input) = 2
    /\ raised = None

HasPrediction(rows, prediction) ==
    \E i \in 1..Len(rows) :
        /\ rows[i].timestamp = prediction.timestamp
        /\ rows[i].kwh = Some(prediction.predicted_kwh)

\* the original statement of C30: the input of a step holds the values of all
\* the steps before it
C30_AllEarlierPredictionsInInput ==
    \A k \in 1..(Len(simulated_readings_output) - 1) :
        HasPrediction(feature_base_df, simulated_readings_output[k])

\* C30: DlModel.predict goes through the future dates in ascending order and
\* every value emitted is in the buffer at its date once its step is done; for
\* a window after the history, the rows from which a step's value was computed
\* hold the values emitted by the REQUIRED_HISTORY_FOR_FEATURES steps before
\* it, and the input sequence those of the SEQUENCE_LENGTH - 1 steps before it.
C30_PredictionsFeedLaterSteps ==
    LET n == Len(simulated_readings_output)
    IN  /\ pc \in {"predict_loop", "predicted"}
        /\ \A i \in 1..Len(historical_data) :
               historical_data[i].timestamp < window.prediction_start_time
        =>
            /\ \A i \in 1..(Len(steps) - 1) : steps[i] < steps[i + 1]
            /\ \A k \in 1..n :
                  HasPrediction(history_df, simulated_readings_output[k])
            /\ \A k \in 1..(n - 1) :
                  /\ n - k <= REQUIRED_HISTORY_FOR_FEATURES =>
                         HasPrediction(feature_base_df, simulated_readings_output[k])
                  /\ n - k <= SEQUENCE_LENGTH - 1 =>
                         HasPrediction(input_sequence_df, simulated_readings_output[k])

\* the third step has run on an input holding the two values before it
C30_Witness ==
    /\ pc = "predict_loop"
    /\ Len(simulated_readings_output) = 3
    /\ simulated_readings_output[1].predicted_kwh = 2
    /\ simulated_readings_output[2].predicted_kwh = 0
    /\ HasPrediction(input_sequence_df, simulated_readings_output[1])
    /\ HasPrediction(input_sequence_df, simulated_readings_output[2])
    /\ input_sequence_df[Len(input_sequence_df)].timestamp =
           simulated_readings_output[3].timestamp

\* C31: every value DlModel.predict emits is non-negative, and the value the
\* buffer holds at the date of a step is the value emitted for it, the clipped
\* one: no row of the buffer holds a negative output of the network.
C31_EmittedValuesAreClipped ==
    /\ \A k \in 1..Len(simulated_readings_output) :
          /\ simulated_readings_output[k].predicted_kwh >= 0
          /\ \A i \in 1..Len(history_df) :
                history_df[i].timestamp = simulated_readings_output[k].timestamp =>
                    history_df[i].kwh = Some(simulated_readings_output[k].predicted_kwh)
    /\ \A i \in 1..Len(history_df) :
          history_df[i].kwh # None => history_df[i].kwh[1] >= 0

\* a step whose network output was negative has emitted 0 and written 0
C31_Witness ==
    /\ pc = "predict_loop"
    /\ Len(simulated_readings_output) = 2
    /\ NetworkOutput(args.network, input_sequence_df) < 0
    /\ simulated_readings_output[2].predicted_kwh = 0
    /\ history_df[Len(history_df)] =
           [timestamp |-> simulated_readings_output[2].timestamp, kwh |-> Some(0)]

C33_TrainedIffLatestTrainFitted ==
    [][forecasting_model'.name = baseline_model =>
          /\ steps' = <<"train">> =>
                (forecasting_model'.is_trained <=>
                    (Targets(historical_data') # {} /\ args'.fit_ok))
          /\ steps' = <<"predict">> =>
                /\ forecasting_model'.is_trained = forecasting_model.is_trained
                /\ ~forecasting_model.is_trained =>
                       simulated_readings_output' = <<>>]_vars

\* a model that had been fitted is untrained after a train whose fit failed
C33_Witness ==
    /\ pc = "trained"
    /\ forecasting_model.name = baseline_model
    /\ forecasting_model.targets # {}
    /\ Targets(historical_data) # {}
    /\ ~args.fit_ok
    /\ ~forecasting_model.is_trained

\* a write of predictions or metrics for a run
WriteCall(call) ==
    call.op \in {"insert_forecast_predictions", "update_forecast_run_metrics"}

\* C34: run_simulation calls insert_forecast_predictions and
\* update_forecast_run_metrics only for a run id that an insert_forecast_run
\* call before them has registered; a call whose registration gave no run id
\* makes neither call, and every stored prediction has its stored run.
C34_WritesOnlyForRegisteredRun ==
    /\ \A i \in 1..Len(db_log) :
          WriteCall(db_log[i]) =>
              \E j \in 1..(i - 1) :
                  /\ db_log[j].op = "insert_forecast_run"
                  /\ db_log[j].args[1] = db_log[i].args[1]
    /\ (Did("persist") /\ current_run_id = None) =>
          \A i \in 1..Len(db_log) :
              WriteCall(db_log[i]) => db_log[i].args[1] # run
    /\ \A p \in forecast_predictions :
          \E r \in forecast_runs : r.run_id = p.run_id

\* a call whose registration failed has predicted and gone through step 8
C34_Witness ==
    /\ pc = "return"
    /\ Did("persist")
    /\ current_run_id = None
    /\ register_error # None
    /\ simulated_readings_output # <<>>
    /\ \A i \in 1..Len(db_log) : ~WriteCall(db_log[i])

\* C35: of the scraper processes the API server has started, at most one is
\* alive at a time, whatever the interleaving of the start and stop requests.
C35_AtMostOneScraperAlive == Cardinality(AliveProcesses) <= 1

\* C36: once the stop event is set, the main loop of the scraper ends; no
\* scrape cycle starts while the event is set; and when the event is found
\* set after the extraction, the loop ends with the readings table as it was,
\* and nothing is inserted after the loop has ended.
C36_StopEndsTheLoop ==
    /\ (stop_scraper_event ~> pc = "terminated")
    /\ [][/\ stop_scraper_event => ~(pc = "loop_top" /\ pc' = "cycle")
          /\ (stop_scraper_event /\ pc = "after_extract") =>
                 (pc' \in {"after_extract", "finished"} /\ readings' = readings)
          /\ pc \in {"finished", "finally", "terminated"} =>
                 readings' = readings]_vars

\* the event was found set after an extraction that gave rows; the loop has
\* ended and the table has none of them
C36_Witness ==
    /\ pc = "finished"
    /\ stop_scraper_event
    /\ ~first_run_data_fetch
    /\ ProcessedReadings(raw_extracted_readings) # <<>>
    /\ readings = {}

\* C37: a call of extract_all_data_from_paginated_table returns; it never
\* holds more than MAX_READINGS rows and never extracts a page beyond
\* max_pages_to_try, whatever the pages hold and whatever the next button does.
C37_PaginationIsBounded ==
    /\ [](pc \in {"while", "extract", "next", "returned"} =>
            /\ Len(all_raw_data) <= MAX_READINGS(args.full_fetch)
            /\ pc \in {"extract", "next"} =>
                   page_count <= max_pages_to_try(args.full_fetch)
            /\ page_count <= max_pages_to_try(args.full_fetch) + 1)
    /\ (pc = "while" ~> pc = "returned")

\* a full fetch over ten pages whose next button never got disabled has
\* returned what it found
C37_Witness ==
    /\ pc = "returned"
    /\ args.full_fetch
    /\ page_count = 11
    /\ Len(all_raw_data) = 10
    /\ ~stop_scraper_event

\* C38: when an operation of db_manager has ended, with its result or with an
\* exception, the pool has no connection handed out.
C38_NoConnectionCheckedOut ==
    pc \in {"idle", "ended"} => DB_POOL = {}

====
